---- MODULE Spec2Model ----
(***************************************************************************)
(* rdgDB: the in-memory property graph (pkg/storage Graph), the write-     *)
(* ahead log (pkg/wal WAL), the snapshot manager (pkg/wal SnapshotManager) *)
(* and the durability facade (pkg/storage PersistentGraph).                *)
(***************************************************************************)
EXTENDS Integers, Sequences, FiniteSets, TLC

----------------------------------------------------------------------------
(* Bounds of the model *)

\* the in-memory specification: Graph.AddNode is offered while nextNodeID <= MaxGraphNodeID
MaxGraphNodeID == 3
\* the in-memory specification: Graph.AddEdge is offered while nextEdgeID <= MaxGraphEdgeID
MaxGraphEdgeID == 2

\* the facade (Spec): AddNode is offered while nextNodeID <= MaxNodeID
MaxNodeID == 2
\* the facade (Spec): AddEdge is offered while nextEdgeID <= MaxEdgeID
MaxEdgeID == 2
\* the facade (Spec): a WAL append is offered while nextIndex <= MaxIndex
MaxIndex == 4
\* the facade (Spec): the environment makes at most MaxFaults WAL appends fail
MaxFaults == 1
\* the facade (Spec): the engine is closed and reopened at most MaxRestarts times
MaxRestarts == 1

\* the facade within one session (SpecSession)
SessionMaxNodeID == 2
SessionMaxEdgeID == 1
SessionMaxIndex == 3
SessionMaxFaults == 1

\* the facade over many restarts (SpecDeep)
DeepMaxNodeID == 1
DeepMaxEdgeID == 2
DeepMaxIndex == 6
DeepMaxFaults == 1
DeepMaxRestarts == 3

\* each thread of the concurrent specification issues at most MaxCalls calls
MaxCalls == 2

\* the WAL on its own: appends per thread, highest index an append may start at,
\* failed appends, reopenings
WalMaxCalls == 2
WalMaxIndex == 3
WalMaxFaults == 1
WalMaxRestarts == 1

\* concurrent callers of the facade with failing appends: how many appends fail
RollbackMaxFaults == 1

\* the graphs queries run on: NodeIDs, EdgeIDs
QueryMaxNodeID == 2
QueryMaxEdgeID == 2

\* lock-level callers: calls per thread, NodeIDs, EdgeIDs
LockMaxCalls == 2
LockMaxNodeID == 2
LockMaxEdgeID == 1

\* planning: how many node patterns a query has
PlanMaxNodes == 3

\* parsing: how many stray characters get into a query text
ParseMaxStray == 1

\* traversal: the largest NodeID and EdgeID of the graph searched, the largest maxDepth
SearchMaxNodeID == 3
SearchMaxEdgeID == 3
SearchMaxDepth == 2

\* depth-first traversal: the largest NodeID and EdgeID of the graph, the largest maxDepth
DfsMaxNodeID == 4
DfsMaxEdgeID == 4
DfsMaxDepth == 2

\* the snapshot directory: files in it, the last second of the clock, the largest
\* keepCount passed to CleanupOldSnapshots
SnapMaxFiles == 3
SnapMaxTime == 3
SnapMaxKeep == 2

\* the engine with crashes inside Snapshot: NodeIDs, EdgeIDs, WAL indexes, crashes
CrashMaxNodeID == 2
CrashMaxEdgeID == 1
CrashMaxIndex == 3
CrashMaxCrashes == 1

----------------------------------------------------------------------------
(* Property values and their JSON encoding *)

\* a Go int stored in a graph.Properties map (interface{} holding int)
IntVal(n) == [kind |-> "int", num |-> n, str |-> ""]
\* a Go float64 stored in a graph.Properties map
FloatVal(n) == [kind |-> "float64", num |-> n, str |-> ""]
\* a Go string stored in a graph.Properties map
StrVal(s) == [kind |-> "string", num |-> 0, str |-> s]

\* graph.Properties{} / make(Properties)
EmptyProps == [k \in {} |-> IntVal(0)]

\* encoding/json on an interface{} value: every Go number becomes a JSON number
JSONEncodeValue(v) ==
  IF v.kind \in {"int", "float64"} THEN [kind |-> "number", num |-> v.num, str |-> ""]
  ELSE v

\* encoding/json into interface{}: every JSON number becomes a float64
JSONDecodeValue(j) ==
  IF j.kind = "number" THEN FloatVal(j.num) ELSE j

JSONEncodeProps(props) == [k \in DOMAIN props |-> JSONEncodeValue(props[k])]
JSONDecodeProps(props) == [k \in DOMAIN props |-> JSONDecodeValue(props[k])]

\* the labels and property maps the callers pass in
NodeLabels == {"Person"}
EdgeLabels == {"KNOWS"}
NodePropChoices == {EmptyProps, [id |-> IntVal(1)]}
EdgePropChoices == {EmptyProps}

\* the bounds and inputs of each specification of the facade
Limits ==
  [node |-> MaxNodeID, edge |-> MaxEdgeID, index |-> MaxIndex,
   faults |-> MaxFaults, restarts |-> MaxRestarts, props |-> NodePropChoices]

SessionLimits ==
  [node |-> SessionMaxNodeID, edge |-> SessionMaxEdgeID, index |-> SessionMaxIndex,
   faults |-> SessionMaxFaults, restarts |-> 0, props |-> {[id |-> IntVal(1)]}]

DeepLimits ==
  [node |-> DeepMaxNodeID, edge |-> DeepMaxEdgeID, index |-> DeepMaxIndex,
   faults |-> DeepMaxFaults, restarts |-> DeepMaxRestarts,
   props |-> {[id |-> IntVal(1)]}]

----------------------------------------------------------------------------
(* internal/graph: Node, Edge *)

NewNode(id, label) ==
  [ID |-> id, Label |-> label, Properties |-> EmptyProps,
   OutEdges |-> <<>>, InEdges |-> <<>>]

NewEdge(id, source, target, label) ==
  [ID |-> id, Source |-> source, Target |-> target, Label |-> label,
   Properties |-> EmptyProps]

\* Node.SetProperty / Edge.SetProperty
SetProperty(x, key, value) ==
  [x EXCEPT !.Properties =
     [k \in (DOMAIN @) \cup {key} |-> IF k = key THEN value ELSE @[k]]]

\* for k, v := range properties { x.SetProperty(k, v) }
RECURSIVE SetProperties(_, _, _)
SetProperties(x, props, keys) ==
  IF keys = {} THEN x
  ELSE LET k == CHOOSE k \in keys : TRUE
       IN SetProperties(SetProperty(x, k, props[k]), props, keys \ {k})

AddOutEdge(node, edgeID) == [node EXCEPT !.OutEdges = Append(@, edgeID)]
AddInEdge(node, edgeID) == [node EXCEPT !.InEdges = Append(@, edgeID)]

----------------------------------------------------------------------------
(* pkg/storage: the in-memory Graph, as functions on a graph value         *)
(*   g = [nodes, edges, nextNodeID, nextEdgeID]                            *)

Put(f, k, v) == [x \in (DOMAIN f) \cup {k} |-> IF x = k THEN v ELSE f[x]]
Drop(f, k) == [x \in (DOMAIN f) \ {k} |-> f[x]]

NewGraph ==
  [nodes |-> [n \in {} |-> NewNode(0, "")],
   edges |-> [e \in {} |-> NewEdge(0, 0, 0, "")],
   nextNodeID |-> 1, nextEdgeID |-> 1]

\* GetNode / GetEdge: found or not
HasNode(g, id) == id \in DOMAIN g.nodes
HasEdge(g, id) == id \in DOMAIN g.edges

NodeCount(g) == Cardinality(DOMAIN g.nodes)
EdgeCount(g) == Cardinality(DOMAIN g.edges)

\* Variant of Graph.AddNode that hands out the smallest ID not in the node map.
Graph_AddNode_Reuse(g, label, properties) ==
  LET nodeID == CHOOSE i \in 1..(g.nextNodeID) :
                  /\ i \notin DOMAIN g.nodes
                  /\ \A j \in 1..(i - 1) : j \in DOMAIN g.nodes
      node == SetProperties(NewNode(nodeID, label), properties, DOMAIN properties)
  IN [g |-> [g EXCEPT !.nextNodeID = @ + 1, !.nodes = Put(@, nodeID, node)],
      id |-> nodeID, err |-> "none"]

\* Graph.AddNode: result [g, id]
Graph_AddNode(g, label, properties) ==
  LET nodeID == g.nextNodeID
      node == SetProperties(NewNode(nodeID, label), properties, DOMAIN properties)
  IN [g |-> [g EXCEPT !.nextNodeID = @ + 1, !.nodes = Put(@, nodeID, node)],
      id |-> nodeID, err |-> "none"]

\* Variant of Graph.AddEdge that draws the edge ID before it looks up the target.
Graph_AddEdge_BurnID(g, source, target, label, properties) ==
  IF ~HasNode(g, source) THEN [g |-> g, id |-> 0, err |-> "notfound"]
  ELSE IF ~HasNode(g, target)
    THEN [g |-> [g EXCEPT !.nextEdgeID = @ + 1], id |-> 0, err |-> "notfound"]
  ELSE
    LET edgeID == g.nextEdgeID
        edge == SetProperties(NewEdge(edgeID, source, target, label),
                              properties, DOMAIN properties)
        n1 == [g.nodes EXCEPT ![source] = AddOutEdge(@, edgeID)]
        n2 == [n1 EXCEPT ![target] = AddInEdge(@, edgeID)]
    IN [g |-> [g EXCEPT !.nextEdgeID = @ + 1,
                        !.edges = Put(@, edgeID, edge),
                        !.nodes = n2],
        id |-> edgeID, err |-> "none"]

\* Graph.AddEdge: result [g, id, err]
Graph_AddEdge(g, source, target, label, properties) ==
  IF ~HasNode(g, source) THEN [g |-> g, id |-> 0, err |-> "notfound"]
  ELSE IF ~HasNode(g, target) THEN [g |-> g, id |-> 0, err |-> "notfound"]
  ELSE
    LET edgeID == g.nextEdgeID
        edge == SetProperties(NewEdge(edgeID, source, target, label),
                              properties, DOMAIN properties)
        n1 == [g.nodes EXCEPT ![source] = AddOutEdge(@, edgeID)]
        n2 == [n1 EXCEPT ![target] = AddInEdge(@, edgeID)]
    IN [g |-> [g EXCEPT !.nextEdgeID = @ + 1,
                        !.edges = Put(@, edgeID, edge),
                        !.nodes = n2],
        id |-> edgeID, err |-> "none"]

\* the loop of removeOutEdge / removeInEdge: drop the first occurrence
RemoveFirst(list, edgeID) ==
  LET hits == {i \in 1..Len(list) : list[i] = edgeID}
  IN IF hits = {} THEN list
     ELSE LET i == CHOOSE i \in hits : \A j \in hits : i <= j
          IN SubSeq(list, 1, i - 1) \o SubSeq(list, i + 1, Len(list))

\* Variant of removeOutEdge that leaves the out-list untouched.
removeOutEdge_Keep(node, edgeID) == node

removeOutEdge(node, edgeID) == [node EXCEPT !.OutEdges = RemoveFirst(@, edgeID)]
\* Variant of removeInEdge that leaves the in-list untouched.
removeInEdge_Keep(node, edgeID) == node

removeInEdge(node, edgeID) == [node EXCEPT !.InEdges = RemoveFirst(@, edgeID)]

\* Graph.DeleteEdge: result [g, err]
Graph_DeleteEdge(g, id) ==
  IF ~HasEdge(g, id) THEN [g |-> g, err |-> "notfound"]
  ELSE
    LET edge == g.edges[id]
        n1 == IF HasNode(g, edge.Source)
              THEN [g.nodes EXCEPT ![edge.Source] = removeOutEdge(@, id)]
              ELSE g.nodes
        n2 == IF HasNode(g, edge.Target)
              THEN [n1 EXCEPT ![edge.Target] = removeInEdge(@, id)]
              ELSE n1
    IN [g |-> [g EXCEPT !.nodes = n2, !.edges = Drop(@, id)], err |-> "none"]

\* for _, edgeID := range list { g.DeleteEdge(edgeID) }   (errors ignored)
RECURSIVE DeleteEdges(_, _)
DeleteEdges(g, list) ==
  IF list = <<>> THEN g
  ELSE DeleteEdges(Graph_DeleteEdge(g, Head(list)).g, Tail(list))

\* Variant of Graph.DeleteNode that cascades over the out-list only.
Graph_DeleteNode_OutOnly(g, id) ==
  IF ~HasNode(g, id) THEN [g |-> g, err |-> "notfound"]
  ELSE
    LET g1 == DeleteEdges(g, g.nodes[id].OutEdges)
    IN [g |-> [g1 EXCEPT !.nodes = Drop(@, id)], err |-> "none"]

\* Graph.DeleteNode: result [g, err]
Graph_DeleteNode(g, id) ==
  IF ~HasNode(g, id) THEN [g |-> g, err |-> "notfound"]
  ELSE
    LET node == g.nodes[id]
        outEdges == node.OutEdges
        inEdges == node.InEdges
        g1 == DeleteEdges(g, outEdges)
        g2 == DeleteEdges(g1, inEdges)
    IN [g |-> [g2 EXCEPT !.nodes = Drop(@, id)], err |-> "none"]

----------------------------------------------------------------------------
(* pkg/wal: the write-ahead log, as functions on a WAL value               *)
(*   w = [file, nextIndex, synced]                                         *)
(* file is the content of wal.log (a sequence of LogEntry records),        *)
(* synced is the length of the prefix of file that a successful fsync      *)
(* has covered.  Timestamps are not modelled.                              *)

LogEntry(index, opType, data) == [Index |-> index, OpType |-> opType, Data |-> data]

\* the outcomes of the two I/O steps of Append: encoder.Encode and file.Sync
Faults == {"none", "encode", "sync"}

RECURSIVE MaxIndexOf(_)
MaxIndexOf(file) ==
  IF file = <<>> THEN 0
  ELSE LET m == MaxIndexOf(Tail(file))
       IN IF Head(file).Index > m THEN Head(file).Index ELSE m

\* Variant of WAL.loadLastIndex that counts the records instead of reading their Index.
loadLastIndex_Count(file) == Len(file) + 1

\* WAL.loadLastIndex: nextIndex = lastIndex + 1
loadLastIndex(file) == MaxIndexOf(file) + 1

\* wal.NewWAL on a directory whose wal.log holds file
NewWAL(file, synced) == [file |-> file, nextIndex |-> loadLastIndex(file), synced |-> synced]

\* Variant of WAL.Append that reports success although file.Sync() failed.
WAL_Append_IgnoreSync(w, opType, data, fault) ==
  LET entry == LogEntry(w.nextIndex, opType, data)
  IN IF fault = "encode"
       THEN [w |-> w, index |-> 0, err |-> "encode"]
     ELSE [w |-> [w EXCEPT !.file = Append(@, entry),
                           !.synced = IF fault = "sync" THEN @ ELSE Len(w.file) + 1,
                           !.nextIndex = @ + 1],
           index |-> w.nextIndex, err |-> "none"]

\* WAL.Append: result [w, index, err]
WAL_Append(w, opType, data, fault) ==
  LET entry == LogEntry(w.nextIndex, opType, data)
  IN IF fault = "encode"
       THEN [w |-> w, index |-> 0, err |-> "encode"]
     ELSE IF fault = "sync"
       THEN [w |-> [w EXCEPT !.file = Append(@, entry)], index |-> 0, err |-> "sync"]
     ELSE [w |-> [w EXCEPT !.file = Append(@, entry),
                           !.synced = Len(w.file) + 1,
                           !.nextIndex = @ + 1],
           index |-> w.nextIndex, err |-> "none"]

LogAddNode(w, nodeID, label, properties, fault) ==
  WAL_Append(w, "ADD_NODE",
             [node_id |-> nodeID, label |-> label,
              properties |-> JSONEncodeProps(properties)], fault)

LogAddEdge(w, edgeID, source, target, label, properties, fault) ==
  WAL_Append(w, "ADD_EDGE",
             [edge_id |-> edgeID, source |-> source, target |-> target,
              label |-> label, properties |-> JSONEncodeProps(properties)], fault)

LogDeleteNode(w, nodeID, fault) ==
  WAL_Append(w, "DELETE_NODE", [node_id |-> nodeID], fault)

LogDeleteEdge(w, edgeID, fault) ==
  WAL_Append(w, "DELETE_EDGE", [edge_id |-> edgeID], fault)

\* Variant of the Truncate test that also drops the entry at beforeIndex.
KeepEntry_After(entry, beforeIndex) == entry.Index > beforeIndex

\* the test of the Truncate loop: which entries are kept
KeepEntry(entry, beforeIndex) == entry.Index >= beforeIndex

\* WAL.Truncate
WAL_Truncate(w, beforeIndex) ==
  LET entriesToKeep == SelectSeq(w.file, LAMBDA e : KeepEntry(e, beforeIndex))
  IN [w EXCEPT !.file = entriesToKeep, !.synced = Len(entriesToKeep)]

\* json decoding of a record's "data" object into map[string]interface{}
JSONDecodeData(data) ==
  [k \in DOMAIN data |->
     IF k = "properties" THEN JSONDecodeProps(data[k])
     ELSE IF k = "label" THEN StrVal(data[k])
     ELSE FloatVal(data[k])]

\* json encoding of a map[string]interface{} as a record's "data" object
JSONEncodeData(data) ==
  [k \in DOMAIN data |->
     IF k = "properties" THEN JSONEncodeProps(data[k])
     ELSE IF k = "label" THEN data[k].str
     ELSE data[k].num]

\* WAL.Replay with a handler that collects the entries it is given
RECURSIVE ReplayEntries(_)
ReplayEntries(file) ==
  IF file = <<>> THEN <<>>
  ELSE <<LogEntry(Head(file).Index, Head(file).OpType, JSONDecodeData(Head(file).Data))>>
         \o ReplayEntries(Tail(file))

\* WAL.GetCurrentIndex
GetCurrentIndex(w) == w.nextIndex - 1

----------------------------------------------------------------------------
(* pkg/wal: the snapshot manager.  latest is the content of                *)
(* snapshot-latest.json; the node and edge slices are kept as maps by ID   *)
(* (their order in the file is Go's map iteration order, and loading is    *)
(* keyed by ID).                                                           *)

NoSnapshot ==
  [present |-> FALSE, Index |-> 0,
   Nodes |-> [n \in {} |-> NewNode(0, "")],
   Edges |-> [e \in {} |-> NewEdge(0, 0, 0, "")]]

\* json encoding of a graph.Node / graph.Edge
JSONEncodeEntity(x) == [x EXCEPT !.Properties = JSONEncodeProps(@)]
JSONDecodeEntity(x) == [x EXCEPT !.Properties = JSONDecodeProps(@)]

\* SnapshotManager.CreateSnapshot: the new content of snapshot-latest.json
CreateSnapshot(walIndex, nodeMap, edgeMap) ==
  [present |-> TRUE, Index |-> walIndex,
   Nodes |-> [n \in DOMAIN nodeMap |-> JSONEncodeEntity(nodeMap[n])],
   Edges |-> [e \in DOMAIN edgeMap |-> JSONEncodeEntity(edgeMap[e])]]

----------------------------------------------------------------------------
(* pkg/storage: recovery *)

Max(a, b) == IF a >= b THEN a ELSE b

RECURSIVE MaxOfSet(_)
MaxOfSet(S) ==
  IF S = {} THEN 0
  ELSE LET x == CHOOSE x \in S : TRUE IN Max(x, MaxOfSet(S \ {x}))

\* convertProperties on the decoded "properties" value
convertProperties(data) == JSONDecodeProps(data)

\* Variant of the snapshot branch of Recover that leaves both ID counters alone.
LoadSnapshot_KeepCounters(g, snapshot) ==
  IF ~snapshot.present THEN g
  ELSE
    [nodes |-> [n \in (DOMAIN g.nodes) \cup (DOMAIN snapshot.Nodes) |->
                  IF n \in DOMAIN snapshot.Nodes
                  THEN JSONDecodeEntity(snapshot.Nodes[n]) ELSE g.nodes[n]],
     edges |-> [e \in (DOMAIN g.edges) \cup (DOMAIN snapshot.Edges) |->
                  IF e \in DOMAIN snapshot.Edges
                  THEN JSONDecodeEntity(snapshot.Edges[e]) ELSE g.edges[e]],
     nextNodeID |-> g.nextNodeID,
     nextEdgeID |-> g.nextEdgeID]

\* the snapshot branch of Recover
LoadSnapshot(g, snapshot) ==
  IF ~snapshot.present THEN g
  ELSE
    [nodes |-> [n \in (DOMAIN g.nodes) \cup (DOMAIN snapshot.Nodes) |->
                  IF n \in DOMAIN snapshot.Nodes
                  THEN JSONDecodeEntity(snapshot.Nodes[n]) ELSE g.nodes[n]],
     edges |-> [e \in (DOMAIN g.edges) \cup (DOMAIN snapshot.Edges) |->
                  IF e \in DOMAIN snapshot.Edges
                  THEN JSONDecodeEntity(snapshot.Edges[e]) ELSE g.edges[e]],
     nextNodeID |-> Max(g.nextNodeID, MaxOfSet(DOMAIN snapshot.Nodes) + 1),
     nextEdgeID |-> Max(g.nextEdgeID, MaxOfSet(DOMAIN snapshot.Edges) + 1)]

\* the ADD_EDGE case of applyWALEntry: append to the adjacency lists
ReplayAdjacency(nodeMap, source, target, edgeID) ==
  LET n1 == IF source \in DOMAIN nodeMap
            THEN [nodeMap EXCEPT ![source] = AddOutEdge(@, edgeID)]
            ELSE nodeMap
  IN IF target \in DOMAIN n1
     THEN [n1 EXCEPT ![target] = AddInEdge(@, edgeID)]
     ELSE n1

\* PersistentGraph.applyWALEntry
applyWALEntry(g, entry) ==
  CASE entry.OpType = "ADD_NODE" ->
         LET nodeID == entry.Data.node_id
             props == convertProperties(entry.Data.properties)
             node == SetProperties(NewNode(nodeID, entry.Data.label), props, DOMAIN props)
         IN [g EXCEPT !.nodes = Put(@, nodeID, node),
                      !.nextNodeID = IF nodeID >= @ THEN nodeID + 1 ELSE @]
    [] entry.OpType = "ADD_EDGE" ->
         LET edgeID == entry.Data.edge_id
             source == entry.Data.source
             target == entry.Data.target
             props == convertProperties(entry.Data.properties)
             edge == SetProperties(NewEdge(edgeID, source, target, entry.Data.label),
                                   props, DOMAIN props)
         IN [g EXCEPT !.edges = Put(@, edgeID, edge),
                      !.nextEdgeID = IF edgeID >= @ THEN edgeID + 1 ELSE @,
                      !.nodes = ReplayAdjacency(@, source, target, edgeID)]
    [] entry.OpType = "DELETE_NODE" -> Graph_DeleteNode(g, entry.Data.node_id).g
    [] entry.OpType = "DELETE_EDGE" -> Graph_DeleteEdge(g, entry.Data.edge_id).g
    [] OTHER -> g

\* WAL.Replay with applyWALEntry as the handler
RECURSIVE Replay(_, _)
Replay(g, file) ==
  IF file = <<>> THEN g
  ELSE Replay(applyWALEntry(g, Head(file)), Tail(file))

\* PersistentGraph.Recover on a fresh graph
Recover(snapshot, file) == Replay(LoadSnapshot(NewGraph, snapshot), file)

----------------------------------------------------------------------------
(* pkg/storage: the facade operations, as functions on (graph, WAL)        *)
(* fault is the outcome the environment gives to the WAL append            *)

\* PersistentGraph.AddNode: result [g, w, id, err]
PersistentGraph_AddNode(g, w, label, properties, fault) ==
  LET r == Graph_AddNode(g, label, properties)
      a == LogAddNode(w, r.id, label, properties, fault)
  IN IF a.err # "none"
     THEN [g |-> Graph_DeleteNode(r.g, r.id).g, w |-> a.w, id |-> r.id, err |-> "wal"]
     ELSE [g |-> r.g, w |-> a.w, id |-> r.id, err |-> "none"]

\* PersistentGraph.AddEdge: result [g, w, id, err]
PersistentGraph_AddEdge(g, w, source, target, label, properties, fault) ==
  LET r == Graph_AddEdge(g, source, target, label, properties)
  IN IF r.err # "none" THEN [g |-> g, w |-> w, id |-> 0, err |-> r.err]
     ELSE LET a == LogAddEdge(w, r.id, source, target, label, properties, fault)
          IN IF a.err # "none"
             THEN [g |-> Graph_DeleteEdge(r.g, r.id).g, w |-> a.w, id |-> r.id, err |-> "wal"]
             ELSE [g |-> r.g, w |-> a.w, id |-> r.id, err |-> "none"]

\* PersistentGraph.DeleteNode: result [g, w, id, err]
PersistentGraph_DeleteNode(g, w, id, fault) ==
  LET r == Graph_DeleteNode(g, id)
  IN IF r.err # "none" THEN [g |-> g, w |-> w, id |-> id, err |-> r.err]
     ELSE LET a == LogDeleteNode(w, id, fault)
          IN IF a.err # "none"
             THEN [g |-> r.g, w |-> a.w, id |-> id, err |-> "wal"]
             ELSE [g |-> r.g, w |-> a.w, id |-> id, err |-> "none"]

\* PersistentGraph.DeleteEdge: result [g, w, id, err]
PersistentGraph_DeleteEdge(g, w, id, fault) ==
  LET r == Graph_DeleteEdge(g, id)
  IN IF r.err # "none" THEN [g |-> g, w |-> w, id |-> id, err |-> r.err]
     ELSE LET a == LogDeleteEdge(w, id, fault)
          IN IF a.err # "none"
             THEN [g |-> r.g, w |-> a.w, id |-> id, err |-> "wal"]
             ELSE [g |-> r.g, w |-> a.w, id |-> id, err |-> "none"]

\* Variant of PersistentGraph.Snapshot that truncates the WAL past the snapshot index.
PersistentGraph_Snapshot_Past(g, w) ==
  LET walIndex == GetCurrentIndex(w)
  IN [latest |-> CreateSnapshot(walIndex, g.nodes, g.edges),
      w |-> WAL_Truncate(w, walIndex + 1)]

\* PersistentGraph.Snapshot: result [w, latest]
PersistentGraph_Snapshot(g, w) ==
  LET walIndex == GetCurrentIndex(w)
  IN [latest |-> CreateSnapshot(walIndex, g.nodes, g.edges),
      w |-> WAL_Truncate(w, walIndex)]

----------------------------------------------------------------------------
(* State *)

VARIABLES
  nodes,          \* Graph.nodes
  edges,          \* Graph.edges
  nextNodeID,     \* Graph.nextNodeID
  nextEdgeID,     \* Graph.nextEdgeID
  walFile,        \* the content of wal.log
  nextIndex,      \* WAL.nextIndex
  syncedLen,      \* how many records of wal.log an fsync has covered
  snapLatest,     \* the content of snapshot-latest.json
  lastOp,         \* the last call and what it returned
  faults,         \* how many WAL appends the environment has failed
  restarts,       \* how many times the engine has been closed and reopened
  fullLog,        \* history: every record ever written to wal.log, never truncated
  issuedNodeIDs,  \* history: the NodeIDs returned by successful AddNode calls
  issuedEdgeIDs,  \* history: the EdgeIDs returned by successful AddEdge calls
  pc,             \* concurrent callers: where each thread is inside its call
  call,           \* concurrent callers: the call each thread has in progress
  calls,          \* concurrent callers: how many calls each thread has made
  mu,             \* WAL.mu: the thread that holds the mutex, 0 when it is free
  stamped,        \* WAL.Append: the Index of the entry each thread has built
  returned,       \* history: the indexes WAL.Append has returned to its callers, in order
  snapPrev,       \* history: snapshot-latest.json as it was when CreateSnapshot began
  walTail,        \* the bytes of wal.log after its last complete record: "" or "partial"
  rollbackFailed, \* history: the Graph.Delete... of a facade rollback returned an error
  snapFiles,      \* the snapshot-<index>-<unix>.json files, oldest modification first
  now,            \* time.Now().Unix()
  query,          \* the Query last executed
  visit,          \* the order in which IterateNodes visited the nodes for it
  result,         \* what Execute returned for it: [err, rows]
  text,           \* the query text handed to NewParser, a sequence of characters
  tokens,         \* the token stream of the lexer of the last parser, up to the first EOF
  parsed,         \* what Parse returned for it: [err, pos, val]
  search,         \* what the last traversal returned
  locks,          \* who holds Graph.nodesMu, Graph.edgesMu, WAL.mu, PersistentGraph.mu, Node.Mu
  frame,          \* lock-level callers: the local variables of each thread's call
  detached,       \* the Node objects deleted from Graph.nodes, by ID
  plan            \* the operators BuildExecutionPlan returned for query

vars == <<nodes, edges, nextNodeID, nextEdgeID, walFile, nextIndex, syncedLen,
          snapLatest, lastOp, faults, restarts, fullLog, issuedNodeIDs,
          issuedEdgeIDs, pc, call, calls, mu, stamped, returned, snapPrev, walTail,
          rollbackFailed, snapFiles, now, query, visit, result,
          text, tokens, parsed, search, locks, frame, detached, plan>>

graphVars == <<nodes, edges, nextNodeID, nextEdgeID>>
walVars == <<walFile, nextIndex, syncedLen>>
histVars == <<fullLog, issuedNodeIDs, issuedEdgeIDs>>
threadVars == <<pc, call, calls>>
\* the state that only some specifications use
dirVars == <<snapFiles, now>>
queryVars == <<query, visit, result>>
parseVars == <<text, tokens, parsed>>
searchVars == <<search>>
lockVars == <<locks, frame, detached>>
planVars == <<plan>>
restVars == <<parseVars, searchVars, lockVars, planVars>>
moreVars == <<dirVars, queryVars, restVars>>
extVars == <<walTail, rollbackFailed, moreVars>>
auxVars == <<mu, stamped, returned, snapPrev, extVars>>

Threads == {1, 2}

\* a sync.RWMutex: the thread holding it for writing (0: none), the threads holding
\* it for reading
Unlocked == [w |-> 0, r |-> {}]

\* the NodeIDs the lock-level callers can be given: every thread can be inside AddNode
\* when nextNodeID reaches LockMaxNodeID
LockNodeIDs == 1..(LockMaxNodeID + Cardinality(Threads) - 1)

\* the local variables of a call: whether the lock of the current step is held, the
\* adjacency copy still to walk, the edge at hand and its endpoints, the ID the call
\* allocated, the neighbors collected, the WAL index read
NoFrame ==
  [holding |-> FALSE, todo |-> <<>>, eid |-> 0, esrc |-> 0, etgt |-> 0, id |-> 0,
   nbrs |-> <<>>, index |-> 0]

G == [nodes |-> nodes, edges |-> edges, nextNodeID |-> nextNodeID, nextEdgeID |-> nextEdgeID]
W == [file |-> walFile, nextIndex |-> nextIndex, synced |-> syncedLen]

SetG(g) ==
  /\ nodes' = g.nodes
  /\ edges' = g.edges
  /\ nextNodeID' = g.nextNodeID
  /\ nextEdgeID' = g.nextEdgeID

\* the WAL after a call, and the history of everything written to wal.log
SetW(w) ==
  /\ walFile' = w.file
  /\ nextIndex' = w.nextIndex
  /\ syncedLen' = w.synced
  /\ fullLog' = IF Len(w.file) = Len(walFile) + 1
                THEN Append(fullLog, w.file[Len(w.file)])
                ELSE fullLog

\* a call and its result: res is "none" (success), "notfound" or "wal" (the append
\* failed with fault); removed is the number of edges the call took out of the edge map
Op(name, id, res, fault, removed) ==
  [op |-> name, id |-> id, res |-> res, fault |-> fault, removed |-> removed]

NoCall == [op |-> "none", id |-> 0, source |-> 0, target |-> 0, label |-> "", properties |-> EmptyProps]

\* NewGraph, and NewPersistentGraph on empty directories
InitEngine ==
  /\ nodes = NewGraph.nodes
  /\ edges = NewGraph.edges
  /\ nextNodeID = NewGraph.nextNodeID
  /\ nextEdgeID = NewGraph.nextEdgeID
  /\ walFile = <<>>
  /\ nextIndex = 1
  /\ syncedLen = 0
  /\ snapLatest = NoSnapshot
  /\ lastOp = Op("New", 0, "none", "none", 0)
  /\ faults = 0
  /\ restarts = 0
  /\ fullLog = <<>>
  /\ issuedNodeIDs = {}
  /\ issuedEdgeIDs = {}
  /\ pc = [t \in Threads |-> "idle"]
  /\ call = [t \in Threads |-> NoCall]
  /\ calls = [t \in Threads |-> 0]
  /\ mu = 0
  /\ stamped = [t \in Threads |-> 0]
  /\ returned = <<>>
  /\ snapPrev = NoSnapshot

Init ==
  /\ InitEngine
  /\ walTail = ""
  /\ rollbackFailed = FALSE
  /\ snapFiles = <<>>
  /\ now = 1
  /\ query = [nodes |-> <<>>, edges |-> <<>>, where |-> [type |-> "nil"], items |-> <<>>,
              limit |-> -1]
  /\ visit = <<>>
  /\ result = [err |-> "none", Columns |-> <<>>, rows |-> <<>>]
  /\ text = <<>>
  /\ tokens = <<>>
  /\ parsed = [err |-> "", pos |-> 0, val |-> [kind |-> "null", num |-> 0, str |-> ""]]
  /\ search = [err |-> "none", VisitedOrder |-> <<>>, Path |-> <<>>, Found |-> FALSE,
               Distance |-> 0]
  /\ locks = [nodesMu |-> Unlocked, edgesMu |-> Unlocked, walMu |-> Unlocked,
              pgMu |-> Unlocked, node |-> [n \in LockNodeIDs |-> Unlocked]]
  /\ frame = [t \in Threads |-> NoFrame]
  /\ detached = <<>>
  /\ plan = <<>>

FaultAllowed(L, fault) == fault = "none" \/ faults < L.faults
CountFault(fault) == faults' = IF fault = "none" THEN faults ELSE faults + 1

----------------------------------------------------------------------------
(* The facade, called by one thread at a time.  L holds the bounds.        *)

AddNode(L) ==
  /\ nextNodeID <= L.node
  /\ nextIndex <= L.index
  /\ \E label \in NodeLabels, properties \in L.props, fault \in Faults :
       /\ FaultAllowed(L, fault)
       /\ LET r == PersistentGraph_AddNode(G, W, label, properties, fault)
          IN /\ SetG(r.g)
             /\ SetW(r.w)
             /\ lastOp' = Op("AddNode", r.id, r.err, fault, 0)
             /\ issuedNodeIDs' = IF r.err = "none" THEN issuedNodeIDs \cup {r.id}
                                 ELSE issuedNodeIDs
       /\ CountFault(fault)
  /\ UNCHANGED <<snapLatest, restarts, issuedEdgeIDs, threadVars, auxVars>>

AddEdge(L) ==
  /\ nextEdgeID <= L.edge
  /\ nextIndex <= L.index
  /\ \E source \in 1..L.node, target \in 1..L.node, label \in EdgeLabels,
        properties \in EdgePropChoices, fault \in Faults :
       /\ FaultAllowed(L, fault)
       /\ LET r == PersistentGraph_AddEdge(G, W, source, target, label, properties, fault)
          IN /\ r.err = "notfound" => fault = "none"
             /\ SetG(r.g)
             /\ SetW(r.w)
             /\ lastOp' = Op("AddEdge", r.id, r.err, fault, 0)
             /\ issuedEdgeIDs' = IF r.err = "none" THEN issuedEdgeIDs \cup {r.id}
                                 ELSE issuedEdgeIDs
       /\ CountFault(fault)
  /\ UNCHANGED <<snapLatest, restarts, issuedNodeIDs, threadVars, auxVars>>

DeleteNode(L) ==
  /\ nextIndex <= L.index
  /\ \E id \in 1..L.node, fault \in Faults :
       /\ FaultAllowed(L, fault)
       /\ LET r == PersistentGraph_DeleteNode(G, W, id, fault)
          IN /\ r.err = "notfound" => fault = "none"
             /\ SetG(r.g)
             /\ SetW(r.w)
             /\ lastOp' = Op("DeleteNode", IF r.err = "notfound" THEN 0 ELSE id, r.err, fault,
                             EdgeCount(G) - EdgeCount(r.g))
       /\ CountFault(fault)
  /\ UNCHANGED <<snapLatest, restarts, issuedNodeIDs, issuedEdgeIDs, threadVars, auxVars>>

DeleteEdge(L) ==
  /\ nextIndex <= L.index
  /\ \E id \in 1..L.edge, fault \in Faults :
       /\ FaultAllowed(L, fault)
       /\ LET r == PersistentGraph_DeleteEdge(G, W, id, fault)
          IN /\ r.err = "notfound" => fault = "none"
             /\ SetG(r.g)
             /\ SetW(r.w)
             /\ lastOp' = Op("DeleteEdge", IF r.err = "notfound" THEN 0 ELSE id, r.err, fault,
                             EdgeCount(G) - EdgeCount(r.g))
       /\ CountFault(fault)
  /\ UNCHANGED <<snapLatest, restarts, issuedNodeIDs, issuedEdgeIDs, threadVars, auxVars>>

Snapshot ==
  /\ LET r == PersistentGraph_Snapshot(G, W)
     IN /\ snapLatest' = r.latest
        /\ walFile' = r.w.file
        /\ nextIndex' = r.w.nextIndex
        /\ syncedLen' = r.w.synced
        /\ lastOp' = Op("Snapshot", r.latest.Index, "none", "none", 0)
  /\ UNCHANGED <<graphVars, faults, restarts, histVars, threadVars, auxVars>>

\* PersistentGraph.Close, then NewPersistentGraph on the same directories
CloseAndReopen(L) ==
  /\ restarts < L.restarts
  /\ LET w == NewWAL(walFile, syncedLen)
     IN /\ SetG(Recover(snapLatest, w.file))
        /\ nextIndex' = w.nextIndex
  /\ restarts' = restarts + 1
  /\ lastOp' = Op("CloseAndReopen", 0, "none", "none", 0)
  /\ UNCHANGED <<walFile, syncedLen, snapLatest, faults, histVars, threadVars, auxVars>>

Next ==
  \/ AddNode(Limits)
  \/ AddEdge(Limits)
  \/ DeleteNode(Limits)
  \/ DeleteEdge(Limits)
  \/ Snapshot
  \/ CloseAndReopen(Limits)

Spec == Init /\ [][Next]_vars

NextDeep ==
  \/ AddNode(DeepLimits)
  \/ AddEdge(DeepLimits)
  \/ DeleteNode(DeepLimits)
  \/ DeleteEdge(DeepLimits)
  \/ Snapshot
  \/ CloseAndReopen(DeepLimits)

SpecDeep == Init /\ [][NextDeep]_vars

NextSession ==
  \/ AddNode(SessionLimits)
  \/ AddEdge(SessionLimits)
  \/ DeleteNode(SessionLimits)
  \/ DeleteEdge(SessionLimits)
  \/ Snapshot

SpecSession == Init /\ [][NextSession]_vars

----------------------------------------------------------------------------
(* The in-memory Graph alone (storage.NewGraph), called by one thread      *)

persistVars == <<walVars, snapLatest, faults, restarts, histVars>>
storeVars == <<walVars, snapLatest, faults, restarts, fullLog>>

GraphAddNode ==
  /\ nextNodeID <= MaxGraphNodeID
  /\ \E label \in NodeLabels, properties \in NodePropChoices :
       LET r == Graph_AddNode(G, label, properties)
       IN /\ SetG(r.g)
          /\ lastOp' = Op("AddNode", r.id, r.err, "none", 0)
          /\ issuedNodeIDs' = issuedNodeIDs \cup {r.id}
  /\ UNCHANGED <<storeVars, issuedEdgeIDs, threadVars, auxVars>>

GraphAddEdge ==
  /\ nextEdgeID <= MaxGraphEdgeID
  /\ \E source \in 1..MaxGraphNodeID, target \in 1..MaxGraphNodeID,
        label \in EdgeLabels, properties \in EdgePropChoices :
       LET r == Graph_AddEdge(G, source, target, label, properties)
       IN /\ SetG(r.g)
          /\ lastOp' = Op("AddEdge", r.id, r.err, "none", 0)
          /\ issuedEdgeIDs' = IF r.err = "none" THEN issuedEdgeIDs \cup {r.id}
                              ELSE issuedEdgeIDs
  /\ UNCHANGED <<storeVars, issuedNodeIDs, threadVars, auxVars>>

GraphDeleteNode ==
  /\ \E id \in 1..MaxGraphNodeID :
       LET r == Graph_DeleteNode(G, id)
       IN /\ SetG(r.g)
          /\ lastOp' = Op("DeleteNode", IF r.err = "notfound" THEN 0 ELSE id, r.err, "none",
                          EdgeCount(G) - EdgeCount(r.g))
  /\ UNCHANGED <<persistVars, threadVars, auxVars>>

GraphDeleteEdge ==
  /\ \E id \in 1..MaxGraphEdgeID :
       LET r == Graph_DeleteEdge(G, id)
       IN /\ SetG(r.g)
          /\ lastOp' = Op("DeleteEdge", IF r.err = "notfound" THEN 0 ELSE id, r.err, "none",
                          EdgeCount(G) - EdgeCount(r.g))
  /\ UNCHANGED <<persistVars, threadVars, auxVars>>

NextGraph ==
  \/ GraphAddNode
  \/ GraphAddEdge
  \/ GraphDeleteNode
  \/ GraphDeleteEdge

SpecGraph == Init /\ [][NextGraph]_vars

----------------------------------------------------------------------------
(* The facade called from several threads.  A facade mutation holds no     *)
(* lock between its in-memory step and its WAL append, so each call is two *)
(* steps: Begin... (the Graph method, taken as one step) and               *)
(* AppendAndReturn (WAL.Append under the WAL mutex, then the return).      *)
(* Callers pass only IDs that an earlier call has returned.  Appends       *)
(* succeed here.                                                           *)

Call(name, id, source, target, label, properties) ==
  [op |-> name, id |-> id, source |-> source, target |-> target,
   label |-> label, properties |-> properties]

Idle(t) == pc[t] = "idle" /\ calls[t] < MaxCalls

\* the call of thread t goes on to its WAL append
ToAppend(t, c) ==
  /\ pc' = [pc EXCEPT ![t] = "append"]
  /\ call' = [call EXCEPT ![t] = c]
  /\ UNCHANGED <<calls, lastOp>>

\* the call of thread t returns the Graph method's error
ReturnNotFound(t, name) ==
  /\ calls' = [calls EXCEPT ![t] = @ + 1]
  /\ lastOp' = Op(name, 0, "notfound", "none", 0)
  /\ UNCHANGED <<pc, call>>

BeginAddNode(t) ==
  /\ Idle(t)
  /\ \E label \in NodeLabels :
       LET r == Graph_AddNode(G, label, EmptyProps)
       IN /\ SetG(r.g)
          /\ ToAppend(t, Call("AddNode", r.id, 0, 0, label, EmptyProps))
  /\ UNCHANGED <<persistVars, auxVars>>

BeginAddEdge(t) ==
  /\ Idle(t)
  /\ \E source \in issuedNodeIDs, target \in issuedNodeIDs, label \in EdgeLabels :
       LET r == Graph_AddEdge(G, source, target, label, EmptyProps)
       IN /\ SetG(r.g)
          /\ IF r.err = "none"
             THEN ToAppend(t, Call("AddEdge", r.id, source, target, label, EmptyProps))
             ELSE ReturnNotFound(t, "AddEdge")
  /\ UNCHANGED <<persistVars, auxVars>>

BeginDeleteNode(t) ==
  /\ Idle(t)
  /\ \E id \in issuedNodeIDs :
       LET r == Graph_DeleteNode(G, id)
       IN /\ SetG(r.g)
          /\ IF r.err = "none"
             THEN ToAppend(t, Call("DeleteNode", id, 0, 0, "", EmptyProps))
             ELSE ReturnNotFound(t, "DeleteNode")
  /\ UNCHANGED <<persistVars, auxVars>>

BeginDeleteEdge(t) ==
  /\ Idle(t)
  /\ \E id \in issuedEdgeIDs :
       LET r == Graph_DeleteEdge(G, id)
       IN /\ SetG(r.g)
          /\ IF r.err = "none"
             THEN ToAppend(t, Call("DeleteEdge", id, 0, 0, "", EmptyProps))
             ELSE ReturnNotFound(t, "DeleteEdge")
  /\ UNCHANGED <<persistVars, auxVars>>

\* the Log... call of the facade method that thread t is in
LogCall(w, c) ==
  CASE c.op = "AddNode" -> LogAddNode(w, c.id, c.label, c.properties, "none")
    [] c.op = "AddEdge" -> LogAddEdge(w, c.id, c.source, c.target, c.label, c.properties, "none")
    [] c.op = "DeleteNode" -> LogDeleteNode(w, c.id, "none")
    [] c.op = "DeleteEdge" -> LogDeleteEdge(w, c.id, "none")

AppendAndReturn(t) ==
  /\ pc[t] = "append"
  /\ SetW(LogCall(W, call[t]).w)
  /\ pc' = [pc EXCEPT ![t] = "idle"]
  /\ call' = [call EXCEPT ![t] = NoCall]
  /\ calls' = [calls EXCEPT ![t] = @ + 1]
  /\ lastOp' = Op(call[t].op, call[t].id, "none", "none", 0)
  /\ issuedNodeIDs' = IF call[t].op = "AddNode" THEN issuedNodeIDs \cup {call[t].id}
                      ELSE issuedNodeIDs
  /\ issuedEdgeIDs' = IF call[t].op = "AddEdge" THEN issuedEdgeIDs \cup {call[t].id}
                      ELSE issuedEdgeIDs
  /\ UNCHANGED <<graphVars, snapLatest, faults, restarts, auxVars>>

NextConcurrent ==
  \E t \in Threads :
    \/ BeginAddNode(t)
    \/ BeginAddEdge(t)
    \/ BeginDeleteNode(t)
    \/ BeginDeleteEdge(t)
    \/ AppendAndReturn(t)

SpecConcurrent == Init /\ [][NextConcurrent]_vars

----------------------------------------------------------------------------
(* Concurrent callers of the facade when a WAL append can fail: the facade   *)
(* method then calls Graph.DeleteNode / Graph.DeleteEdge to take back what   *)
(* it added and drops the error of that call                                 *)

\* the Log... call of the facade method that thread t is in, with the append's fault
LogCallWith(w, c, fault) ==
  CASE c.op = "AddNode" -> LogAddNode(w, c.id, c.label, c.properties, fault)
    [] c.op = "AddEdge" -> LogAddEdge(w, c.id, c.source, c.target, c.label, c.properties, fault)
    [] c.op = "DeleteNode" -> LogDeleteNode(w, c.id, fault)
    [] c.op = "DeleteEdge" -> LogDeleteEdge(w, c.id, fault)

\* the rollback of the facade method c on graph g: result [g, err]
Rollback(g, c) ==
  CASE c.op = "AddNode" -> Graph_DeleteNode(g, c.id)
    [] c.op = "AddEdge" -> Graph_DeleteEdge(g, c.id)
    [] OTHER -> [g |-> g, err |-> "none"]

\* the append of thread t's call fails: rollback, the rollback's error is dropped, the
\* append's error is returned
AppendFailsAndReturn(t) ==
  /\ pc[t] = "append"
  /\ faults < RollbackMaxFaults
  /\ \E fault \in {"encode", "sync"} :
       /\ SetW(LogCallWith(W, call[t], fault).w)
       /\ lastOp' = Op(call[t].op, call[t].id, "wal", fault, 0)
  /\ LET rb == Rollback(G, call[t])
     IN /\ SetG(rb.g)
        /\ rollbackFailed' = (rollbackFailed \/ rb.err # "none")
  /\ faults' = faults + 1
  /\ pc' = [pc EXCEPT ![t] = "idle"]
  /\ call' = [call EXCEPT ![t] = NoCall]
  /\ calls' = [calls EXCEPT ![t] = @ + 1]
  /\ UNCHANGED <<snapLatest, restarts, issuedNodeIDs, issuedEdgeIDs, mu, stamped, returned,
                 snapPrev, walTail, moreVars>>

NextRollback ==
  \E t \in Threads :
    \/ BeginAddNode(t)
    \/ BeginAddEdge(t)
    \/ BeginDeleteNode(t)
    \/ BeginDeleteEdge(t)
    \/ AppendAndReturn(t)
    \/ AppendFailsAndReturn(t)

SpecRollback == Init /\ [][NextRollback]_vars

----------------------------------------------------------------------------
(* Concurrent AddNode calls, Graph.AddNode step by step: the atomic draw of   *)
(* the ID, then the store into the node map under nodesMu.  A call is made on *)
(* the Graph ("Graph.AddNode") or on the facade ("AddNode", which goes on to  *)
(* its WAL append).                                                           *)

\* Variant of the ID draw that reads the counter without advancing it.
DrawNodeID_Peek(g) == [g |-> g, id |-> g.nextNodeID]

\* nodeID := graph.NodeID(g.nextNodeID.Add(1) - 1): result [g, id]
DrawNodeID(g) == [g |-> [g EXCEPT !.nextNodeID = @ + 1], id |-> g.nextNodeID]

\* g.nodesMu.Lock(); g.nodes[nodeID] = node; g.nodesMu.Unlock()
StoreNode(g, nodeID, label, properties) ==
  [g EXCEPT !.nodes = Put(@, nodeID, SetProperties(NewNode(nodeID, label), properties,
                                                  DOMAIN properties))]

AddNodeDraw(t) ==
  /\ Idle(t)
  /\ \E via \in {"Graph.AddNode", "AddNode"}, label \in NodeLabels :
       LET d == DrawNodeID(G)
       IN /\ SetG(d.g)
          /\ call' = [call EXCEPT ![t] = Call(via, d.id, 0, 0, label, EmptyProps)]
  /\ pc' = [pc EXCEPT ![t] = "drawn"]
  /\ UNCHANGED <<persistVars, calls, lastOp, auxVars>>

AddNodeStore(t) ==
  /\ pc[t] = "drawn"
  /\ SetG(StoreNode(G, call[t].id, call[t].label, call[t].properties))
  /\ IF call[t].op = "AddNode"
     THEN /\ pc' = [pc EXCEPT ![t] = "append"]
          /\ UNCHANGED <<call, calls, lastOp, issuedNodeIDs>>
     ELSE /\ pc' = [pc EXCEPT ![t] = "idle"]
          /\ call' = [call EXCEPT ![t] = NoCall]
          /\ calls' = [calls EXCEPT ![t] = @ + 1]
          /\ lastOp' = Op(call[t].op, call[t].id, "none", "none", 0)
          /\ issuedNodeIDs' = issuedNodeIDs \cup {call[t].id}
  /\ UNCHANGED <<storeVars, issuedEdgeIDs, auxVars>>

NextAddNodes ==
  \E t \in Threads :
    \/ AddNodeDraw(t)
    \/ AddNodeStore(t)
    \/ AppendAndReturn(t)
    \/ AppendFailsAndReturn(t)

SpecAddNodes == Init /\ [][NextAddNodes]_vars

----------------------------------------------------------------------------
(* pkg/wal on its own: goroutines inside WAL.Append, step by step, with         *)
(* Truncate and Close + NewWAL between the appends                              *)

\* the Log... calls the goroutines make
WalCalls ==
  {Call("AddNode", 1, 0, 0, "Person", [id |-> IntVal(1)]),
   Call("DeleteNode", 1, 0, 0, "", EmptyProps)}

\* w.mu.Lock() can return
MuFree(t) == mu = 0

\* Append returns (the deferred w.mu.Unlock() runs)
WalReturn(t, index, res, fault) ==
  /\ mu' = 0
  /\ pc' = [pc EXCEPT ![t] = "idle"]
  /\ call' = [call EXCEPT ![t] = NoCall]
  /\ calls' = [calls EXCEPT ![t] = @ + 1]
  /\ stamped' = [stamped EXCEPT ![t] = 0]
  /\ lastOp' = Op("Append", index, res, fault, 0)
  /\ returned' = IF res = "none" THEN Append(returned, index) ELSE returned

\* a Log... call enters Append and takes the mutex
WalLock(t) ==
  /\ pc[t] = "idle"
  /\ calls[t] < WalMaxCalls
  /\ nextIndex <= WalMaxIndex
  /\ MuFree(t)
  /\ \E c \in WalCalls : call' = [call EXCEPT ![t] = c]
  /\ mu' = t
  /\ pc' = [pc EXCEPT ![t] = "locked"]
  /\ lastOp' = Op("Append", 0, "running", "none", 0)
  /\ UNCHANGED <<graphVars, walVars, snapLatest, faults, restarts, histVars,
                 calls, stamped, returned, snapPrev, extVars>>

\* entry := LogEntry{Index: w.nextIndex, ...}; w.encoder.Encode(&entry)
WalEncode(t) ==
  /\ pc[t] = "locked"
  /\ \E fault \in {"none", "encode"} :
       /\ fault = "none" \/ faults < WalMaxFaults
       /\ CountFault(fault)
       /\ IF fault = "encode"
          THEN /\ WalReturn(t, 0, "wal", fault)
               /\ UNCHANGED <<walVars, fullLog>>
          ELSE /\ walFile' = LogCall(W, call[t]).w.file
               /\ fullLog' = Append(fullLog, walFile'[Len(walFile')])
               /\ stamped' = [stamped EXCEPT ![t] = nextIndex]
               /\ pc' = [pc EXCEPT ![t] = "encoded"]
               /\ UNCHANGED <<nextIndex, syncedLen, lastOp, mu, call, calls, returned>>
  /\ UNCHANGED <<graphVars, snapLatest, restarts, issuedNodeIDs, issuedEdgeIDs, snapPrev,
                 extVars>>

\* w.file.Sync()
WalSync(t) ==
  /\ pc[t] = "encoded"
  /\ \E fault \in {"none", "sync"} :
       /\ fault = "none" \/ faults < WalMaxFaults
       /\ CountFault(fault)
       /\ IF fault = "sync"
          THEN /\ WalReturn(t, 0, "wal", fault)
               /\ UNCHANGED walVars
          ELSE /\ syncedLen' = Len(walFile)
               /\ pc' = [pc EXCEPT ![t] = "synced"]
               /\ UNCHANGED <<walFile, nextIndex, lastOp, mu, call, calls, stamped, returned>>
  /\ UNCHANGED <<graphVars, snapLatest, restarts, histVars, snapPrev, extVars>>

\* index := w.nextIndex; w.nextIndex++; return index, nil
WalCommit(t) ==
  /\ pc[t] = "synced"
  /\ nextIndex' = nextIndex + 1
  /\ WalReturn(t, nextIndex, "none", "none")
  /\ UNCHANGED <<graphVars, walFile, syncedLen, snapLatest, faults, restarts, histVars,
                 snapPrev, extVars>>

\* WAL.Truncate(beforeIndex), the whole body under the mutex
WalTruncate ==
  /\ mu = 0
  /\ \E beforeIndex \in 1..WalMaxIndex :
       LET w == WAL_Truncate(W, beforeIndex)
       IN /\ walFile' = w.file
          /\ nextIndex' = w.nextIndex
          /\ syncedLen' = w.synced
          /\ lastOp' = Op("Truncate", beforeIndex, "none", "none", Len(walFile) - Len(w.file))
  /\ UNCHANGED <<graphVars, snapLatest, faults, restarts, histVars, threadVars, auxVars>>

\* WAL.Close, then NewWAL on the same directory
WalReopen ==
  /\ \A t \in Threads : pc[t] = "idle"
  /\ restarts < WalMaxRestarts
  /\ nextIndex' = NewWAL(walFile, syncedLen).nextIndex
  /\ restarts' = restarts + 1
  /\ lastOp' = Op("Reopen", 0, "none", "none", 0)
  /\ UNCHANGED <<graphVars, walFile, syncedLen, snapLatest, faults, histVars, threadVars,
                 auxVars>>

NextWAL ==
  \/ \E t \in Threads : WalLock(t)
  \/ \E t \in Threads : WalEncode(t)
  \/ \E t \in Threads : WalSync(t)
  \/ \E t \in Threads : WalCommit(t)
  \/ WalTruncate
  \/ WalReopen

SpecWAL == Init /\ [][NextWAL]_vars

----------------------------------------------------------------------------
(* pkg/storage with the process dying: Snapshot step by step, as                *)
(* SnapshotManager.CreateSnapshot and WAL.Truncate change the files             *)

CrashLimits ==
  [node |-> CrashMaxNodeID, edge |-> CrashMaxEdgeID, index |-> CrashMaxIndex,
   faults |-> 0, restarts |-> CrashMaxCrashes, props |-> {EmptyProps}]

\* the caller is between two calls
Quiet == pc[1] = "idle"

CrashAddNode == Quiet /\ AddNode(CrashLimits)
CrashAddEdge == Quiet /\ AddEdge(CrashLimits)
CrashDeleteNode == Quiet /\ DeleteNode(CrashLimits)
CrashDeleteEdge == Quiet /\ DeleteEdge(CrashLimits)

\* one step of Snapshot: thread 1 moves to position next
SnapshotStep(next, c) ==
  /\ pc' = [pc EXCEPT ![1] = next]
  /\ call' = [call EXCEPT ![1] = c]
  /\ UNCHANGED <<graphVars, nextIndex, faults, restarts, histVars, calls, mu, stamped,
                 returned, extVars>>

\* walIndex := GetCurrentIndex(); CreateSnapshot writes snapshot-<index>-<time>.json
\* and fsyncs it
SnapshotWriteFile ==
  /\ Quiet
  /\ SnapshotStep("written", Call("Snapshot", GetCurrentIndex(W), 0, 0, "", EmptyProps))
  /\ snapPrev' = snapLatest
  /\ lastOp' = Op("Snapshot", GetCurrentIndex(W), "running", "none", 0)
  /\ UNCHANGED <<walFile, syncedLen, snapLatest>>

\* os.Remove(latestPath)
SnapshotRemoveLatest ==
  /\ pc[1] = "written"
  /\ SnapshotStep("removed", call[1])
  /\ snapLatest' = NoSnapshot
  /\ UNCHANGED <<walFile, syncedLen, lastOp, snapPrev>>

\* copyFile(path, latestPath)
SnapshotCopyLatest ==
  /\ pc[1] = "removed"
  /\ SnapshotStep("copied", call[1])
  /\ snapLatest' = CreateSnapshot(call[1].id, nodes, edges)
  /\ UNCHANGED <<walFile, syncedLen, lastOp, snapPrev>>

\* pg.wal.Truncate(walIndex); Snapshot returns
SnapshotTruncate ==
  /\ pc[1] = "copied"
  /\ SnapshotStep("idle", NoCall)
  /\ LET w == WAL_Truncate(W, call[1].id)
     IN /\ walFile' = w.file
        /\ syncedLen' = w.synced
  /\ lastOp' = Op("Snapshot", call[1].id, "none", "none", 0)
  /\ UNCHANGED <<snapLatest, snapPrev>>

\* the process dies and is started again on the same directories
Crash ==
  /\ restarts < CrashMaxCrashes
  /\ LET w == NewWAL(walFile, syncedLen)
     IN /\ SetG(Recover(snapLatest, w.file))
        /\ nextIndex' = w.nextIndex
  /\ restarts' = restarts + 1
  /\ pc' = [pc EXCEPT ![1] = "idle"]
  /\ call' = [call EXCEPT ![1] = NoCall]
  /\ lastOp' = Op("Crash", 0, "none", "none", 0)
  /\ UNCHANGED <<walFile, syncedLen, snapLatest, faults, histVars, calls, auxVars>>

NextCrash ==
  \/ CrashAddNode
  \/ CrashAddEdge
  \/ CrashDeleteNode
  \/ CrashDeleteEdge
  \/ SnapshotWriteFile
  \/ SnapshotRemoveLatest
  \/ SnapshotCopyLatest
  \/ SnapshotTruncate
  \/ Crash

SpecCrash == Init /\ [][NextCrash]_vars

----------------------------------------------------------------------------
(* pkg/storage opened on a wal.log whose last record was cut short: the     *)
(* process died inside the Write of WAL.Append                              *)

\* json.Decoder.Decode once the complete records are consumed: io.EOF at the end of
\* the file, io.ErrUnexpectedEOF inside a record that was cut short
DecodeAtEnd(tail) == IF tail = "" THEN "EOF" ELSE "unexpected EOF"

\* loadLastIndex over the complete records and the tail: the decode loop breaks on
\* io.EOF only, any other error is returned
loadLastIndexErr(file, tail) ==
  IF DecodeAtEnd(tail) = "EOF"
  THEN [err |-> "none", nextIndex |-> loadLastIndex(file)]
  ELSE [err |-> "failed to decode entry", nextIndex |-> 1]

\* WAL.Replay over the complete records and the tail, from graph g: the handler is
\* applied to every record decoded before the error
ReplayErr(g, file, tail) ==
  IF DecodeAtEnd(tail) = "EOF"
  THEN [err |-> "none", g |-> Replay(g, file)]
  ELSE [err |-> "failed to decode entry during replay", g |-> Replay(g, file)]

\* NewPersistentGraph: NewWAL (loadLastIndex), then Recover (LoadLatestSnapshot, Replay);
\* the first error is returned and there is no engine
NewPersistentGraph(snapshot, file, synced, tail) ==
  LET li == loadLastIndexErr(file, tail)
      rp == ReplayErr(LoadSnapshot(NewGraph, snapshot), file, tail)
  IN IF li.err # "none"
     THEN [err |-> "failed to create WAL", g |-> NewGraph, nextIndex |-> 1]
     ELSE IF rp.err # "none"
     THEN [err |-> "failed to recover", g |-> NewGraph, nextIndex |-> 1]
     ELSE [err |-> "none", g |-> rp.g, nextIndex |-> li.nextIndex]

\* how the process can die between two calls or inside an append
KillPoints == {"between calls", "inside Write"}

\* the process dies; a death inside the Write of Append leaves part of the record
Kill ==
  /\ Quiet
  /\ restarts < CrashMaxCrashes
  /\ \E point \in KillPoints :
       walTail' = IF point = "inside Write" THEN "partial" ELSE walTail
  /\ restarts' = restarts + 1
  /\ pc' = [pc EXCEPT ![1] = "down"]
  /\ lastOp' = Op("Kill", 0, "none", "none", 0)
  /\ UNCHANGED <<graphVars, walVars, snapLatest, faults, histVars, call, calls, mu,
                 stamped, returned, snapPrev, rollbackFailed, moreVars>>

\* the process is started on the same directories: NewPersistentGraph
Open ==
  /\ pc[1] = "down"
  /\ lastOp.op = "Kill"
  /\ LET r == NewPersistentGraph(snapLatest, walFile, syncedLen, walTail)
     IN /\ lastOp' = Op("Open", 0, IF r.err = "none" THEN "none" ELSE "decode", "none", 0)
        /\ IF r.err = "none"
           THEN /\ SetG(r.g)
                /\ nextIndex' = r.nextIndex
                /\ pc' = [pc EXCEPT ![1] = "idle"]
           ELSE UNCHANGED <<graphVars, nextIndex, pc>>
  /\ UNCHANGED <<walFile, syncedLen, snapLatest, faults, restarts, histVars, call, calls,
                 auxVars>>

QuietSnapshot == Quiet /\ Snapshot

NextTorn ==
  \/ CrashAddNode
  \/ CrashAddEdge
  \/ CrashDeleteNode
  \/ CrashDeleteEdge
  \/ QuietSnapshot
  \/ Kill
  \/ Open

SpecTorn == Init /\ [][NextTorn]_vars

----------------------------------------------------------------------------
(* pkg/wal SnapshotManager: the snapshot directory.  A file is                *)
(* [Index, Unix], named snapshot-<Index>-<Unix>.json; snapFiles lists the     *)
(* files by modification time, oldest first.                                  *)

\* the WAL indexes CreateSnapshot is called with
SnapIndexes == {1, 9, 10}

\* the decimal digits of n as character codes ('0' is 48)
RECURSIVE Dec(_)
Dec(n) == IF n < 10 THEN <<48 + n>> ELSE Dec(n \div 10) \o <<48 + (n % 10)>>

\* fmt.Sprintf("snapshot-%d-%d.json", walIndex, time.Now().Unix()) after the common
\* prefix "snapshot-": the characters up to and including the '.' ('-' is 45, '.' is 46)
FileName(f) == Dec(f.Index) \o <<45>> \o Dec(f.Unix) \o <<46>>

\* string comparison a < b, byte by byte
RECURSIVE NameLess(_, _)
NameLess(a, b) ==
  IF b = <<>> THEN FALSE
  ELSE IF a = <<>> THEN TRUE
  ELSE IF Head(a) # Head(b) THEN Head(a) < Head(b)
  ELSE NameLess(Tail(a), Tail(b))

\* os.ReadDir: the directory's entries sorted by file name
RECURSIVE ReadDir(_)
ReadDir(S) ==
  IF S = {} THEN <<>>
  ELSE LET first == CHOOSE f \in S : \A o \in S \ {f} : NameLess(FileName(f), FileName(o))
       IN <<first>> \o ReadDir(S \ {first})

\* ListSnapshots: the .json entries of ReadDir other than snapshot-latest.json
ListSnapshots(files) == ReadDir({files[i] : i \in 1..Len(files)})

\* CleanupOldSnapshots: the first len(snapshots) - keepCount entries of ListSnapshots
\* are removed
CleanupOldSnapshots(files, keepCount) ==
  LET snapshots == ListSnapshots(files)
      toDelete == Len(snapshots) - keepCount
      deleted == {snapshots[i] : i \in 1..toDelete}
  IN IF Len(snapshots) <= keepCount THEN files
     ELSE SelectSeq(files, LAMBDA f : f \notin deleted)

\* what the directory specification leaves alone
engineVars == <<graphVars, walVars, faults, restarts, histVars, threadVars, mu, stamped,
                returned, snapPrev, walTail, rollbackFailed>>

\* SnapshotManager.CreateSnapshot(walIndex, nodes, edges): os.Create makes the file or
\* truncates the one of that name; then snapshot-latest.json is rewritten
ManagerCreate ==
  /\ \E walIndex \in SnapIndexes :
       LET f == [Index |-> walIndex, Unix |-> now]
           others == SelectSeq(snapFiles, LAMBDA o : o # f)
       IN /\ \A i \in 1..Len(snapFiles) : snapFiles[i].Index <= walIndex
          /\ Len(others) < SnapMaxFiles
          /\ snapFiles' = Append(others, f)
          /\ snapLatest' = CreateSnapshot(walIndex, nodes, edges)
          /\ lastOp' = Op("CreateSnapshot", walIndex, "none", "none", 0)
  /\ UNCHANGED <<engineVars, now, queryVars, restVars>>

\* a second passes
ClockTick ==
  /\ now < SnapMaxTime
  /\ now' = now + 1
  /\ lastOp' = Op("Tick", 0, "none", "none", 0)
  /\ UNCHANGED <<engineVars, snapLatest, snapFiles, queryVars, restVars>>

\* SnapshotManager.CleanupOldSnapshots(keepCount)
ManagerCleanup ==
  /\ \E keepCount \in 0..SnapMaxKeep :
       /\ snapFiles' = CleanupOldSnapshots(snapFiles, keepCount)
       /\ lastOp' = Op("CleanupOldSnapshots", keepCount, "none", "none",
                       Len(snapFiles) - Len(snapFiles'))
  /\ UNCHANGED <<engineVars, snapLatest, now, queryVars, restVars>>

NextDir ==
  \/ ManagerCreate
  \/ ClockTick
  \/ ManagerCleanup

SpecDir == Init /\ [][NextDir]_vars

----------------------------------------------------------------------------
(* pkg/query: the executor.  A query is the AST record                        *)
(*   [nodes, edges, where, items, limit]                                      *)
(* of its first pattern (node patterns, edge patterns), its WHERE expression, *)
(* its RETURN items and its LIMIT (-1 when the clause is absent).  A value in *)
(* a binding or a row is a property value, a node, an edge or null.           *)

NodeRef(id) == [kind |-> "node", num |-> id, str |-> ""]
EdgeRef(id) == [kind |-> "edge", num |-> id, str |-> ""]
BoolVal(b) == [kind |-> "bool", num |-> IF b THEN 1 ELSE 0, str |-> ""]
Null == [kind |-> "null", num |-> 0, str |-> ""]

\* the AST
NodePattern(variable, label, properties) ==
  [Variable |-> variable, Label |-> label, Properties |-> properties]
EdgePattern(variable, type, direction) ==
  [Variable |-> variable, Type |-> type, Direction |-> direction]
Literal(value) == [type |-> "Literal", Value |-> value]
Identifier(name) == [type |-> "Identifier", Name |-> name]
PropertyAccess(variable, property) ==
  [type |-> "PropertyAccess", Variable |-> variable, Property |-> property]
BinaryExpr(left, operator, right) ==
  [type |-> "BinaryExpr", Left |-> left, Operator |-> operator, Right |-> right]
NoExpr == [type |-> "nil"]

\* the empty BindingTable
EmptyMatch == [v \in {} |-> Null]

\* toFloat: the number of an int or float64, 0 for anything else
toFloat(v) == IF v.kind \in {"int", "float64"} THEN v.num ELSE 0

\* compareNumbers
compareNumbers(a, b) ==
  IF toFloat(a) < toFloat(b) THEN -1 ELSE IF toFloat(a) > toFloat(b) THEN 1 ELSE 0

\* compareValues: result [err, val]
compareValues(left, op, right) ==
  CASE op = "=" -> [err |-> "none", val |-> BoolVal(left = right)]
    [] op = "!=" -> [err |-> "none", val |-> BoolVal(left # right)]
    [] op \in {"AND", "OR"} ->
         IF left.kind # "bool" \/ right.kind # "bool"
         THEN [err |-> "requires boolean operands", val |-> BoolVal(FALSE)]
         ELSE [err |-> "none",
               val |-> BoolVal(IF op = "AND" THEN left.num = 1 /\ right.num = 1
                               ELSE left.num = 1 \/ right.num = 1)]
    [] op = ">" -> [err |-> "none", val |-> BoolVal(compareNumbers(left, right) > 0)]
    [] op = "<" -> [err |-> "none", val |-> BoolVal(compareNumbers(left, right) < 0)]
    [] op = ">=" -> [err |-> "none", val |-> BoolVal(compareNumbers(left, right) >= 0)]
    [] op = "<=" -> [err |-> "none", val |-> BoolVal(compareNumbers(left, right) <= 0)]
    [] OTHER -> [err |-> "unknown operator", val |-> BoolVal(FALSE)]

\* Node.GetProperty / Edge.GetProperty of the entity a binding refers to; null when the
\* property is not set
GetProperty(g, ref, property) ==
  LET props == IF ref.kind = "node" THEN g.nodes[ref.num].Properties
               ELSE g.edges[ref.num].Properties
  IN IF property \in DOMAIN props THEN props[property] ELSE Null

\* evaluateExpression: result [err, val]
RECURSIVE evaluateExpression(_, _, _)
evaluateExpression(g, expr, match) ==
  CASE expr.type = "Literal" -> [err |-> "none", val |-> expr.Value]
    [] expr.type = "Identifier" ->
         IF expr.Name \in DOMAIN match
         THEN [err |-> "none", val |-> match[expr.Name]]
         ELSE [err |-> "variable not found", val |-> Null]
    [] expr.type = "PropertyAccess" ->
         IF expr.Variable \notin DOMAIN match
         THEN [err |-> "variable not found", val |-> Null]
         ELSE IF match[expr.Variable].kind \in {"node", "edge"}
         THEN [err |-> "none", val |-> GetProperty(g, match[expr.Variable], expr.Property)]
         ELSE [err |-> "not a node or edge", val |-> Null]
    [] expr.type = "BinaryExpr" ->
         LET left == evaluateExpression(g, expr.Left, match)
             right == evaluateExpression(g, expr.Right, match)
         IN IF left.err # "none" THEN left
            ELSE IF right.err # "none" THEN right
            ELSE compareValues(left.val, expr.Operator, right.val)
    [] OTHER -> [err |-> "unknown expression type", val |-> Null]

\* newMatch := copyBindingTable(match); if variable != "" { newMatch[variable] = value }
Bind(match, variable, value) == IF variable = "" THEN match ELSE Put(match, variable, value)

\* ScanOperator.Execute: nodes visited in the order order
RECURSIVE ScanExecute(_, _, _, _)
ScanExecute(g, s, matches, order) ==
  IF order = <<>> THEN <<>>
  ELSE LET node == g.nodes[Head(order)]
           here == IF s.Label # "" /\ node.Label # s.Label THEN <<>>
                   ELSE [i \in 1..Len(matches) |-> Bind(matches[i], s.Variable, NodeRef(node.ID))]
       IN here \o ScanExecute(g, s, matches, Tail(order))

\* FilterOperator.Execute: result [err, matches]
RECURSIVE FilterExecute(_, _, _)
FilterExecute(g, f, matches) ==
  IF matches = <<>> THEN [err |-> "none", matches |-> <<>>]
  ELSE LET verdict == evaluateExpression(g, f.Predicate, Head(matches))
           rest == FilterExecute(g, f, Tail(matches))
       IN IF verdict.err # "none" THEN [err |-> verdict.err, matches |-> <<>>]
          ELSE IF rest.err # "none" THEN rest
          ELSE [err |-> "none",
                matches |-> IF verdict.val = BoolVal(TRUE) THEN <<Head(matches)>> \o rest.matches
                            ELSE rest.matches]

\* Variant of the edge loop of ExpandOperator.Execute that does not look at the edge type.
RECURSIVE ExpandAlong_AnyType(_, _, _, _, _)
ExpandAlong_AnyType(g, e, match, list, far) ==
  IF list = <<>> THEN <<>>
  ELSE LET edgeID == Head(list)
           rest == ExpandAlong_AnyType(g, e, match, Tail(list), far)
       IN IF ~HasEdge(g, edgeID) THEN rest
          ELSE LET edge == g.edges[edgeID]
                   other == IF far = "Target" THEN edge.Target ELSE edge.Source
               IN IF ~HasNode(g, other) THEN rest
                  ELSE <<Bind(Bind(match, e.TargetVar, NodeRef(other)),
                              e.EdgeVar, EdgeRef(edgeID))>> \o rest

\* the bindings ExpandOperator.Execute makes from match along the edges of list (an
\* OutEdges or InEdges list); far is "Target" for outgoing, "Source" for incoming
RECURSIVE ExpandAlong(_, _, _, _, _)
ExpandAlong(g, e, match, list, far) ==
  IF list = <<>> THEN <<>>
  ELSE LET edgeID == Head(list)
           rest == ExpandAlong(g, e, match, Tail(list), far)
       IN IF ~HasEdge(g, edgeID) THEN rest
          ELSE LET edge == g.edges[edgeID]
                   other == IF far = "Target" THEN edge.Target ELSE edge.Source
               IN IF e.EdgeType # "" /\ edge.Label # e.EdgeType THEN rest
                  ELSE IF ~HasNode(g, other) THEN rest
                  ELSE <<Bind(Bind(match, e.TargetVar, NodeRef(other)),
                              e.EdgeVar, EdgeRef(edgeID))>> \o rest

\* ExpandOperator.Execute: result [err, matches]
RECURSIVE ExpandExecute(_, _, _)
ExpandExecute(g, e, matches) ==
  IF matches = <<>> THEN [err |-> "none", matches |-> <<>>]
  ELSE LET match == Head(matches)
       IN IF e.SourceVar \notin DOMAIN match
          THEN [err |-> "variable not found", matches |-> <<>>]
          ELSE IF match[e.SourceVar].kind # "node"
          THEN [err |-> "variable is not a node", matches |-> <<>>]
          ELSE LET sourceNode == g.nodes[match[e.SourceVar].num]
                   out == IF e.Direction \in {"Out", "Both"}
                          THEN ExpandAlong(g, e, match, sourceNode.OutEdges, "Target")
                          ELSE <<>>
                   in == IF e.Direction \in {"In", "Both"}
                         THEN ExpandAlong(g, e, match, sourceNode.InEdges, "Source")
                         ELSE <<>>
                   rest == ExpandExecute(g, e, Tail(matches))
               IN IF rest.err # "none" THEN rest
                  ELSE [err |-> "none", matches |-> out \o in \o rest.matches]

\* the column name of a RETURN item; n is len(row) when the item is evaluated
ColumnName(item, n) ==
  IF item.Alias # "" THEN item.Alias
  ELSE IF item.Expr.type = "Identifier" THEN item.Expr.Name
  ELSE IF item.Expr.type = "PropertyAccess"
  THEN item.Expr.Variable \o "." \o item.Expr.Property
  ELSE "col_" \o ToString(n)

\* the row of one match: result [err, row]
RECURSIVE ProjectRow(_, _, _, _)
ProjectRow(g, items, match, row) ==
  IF items = <<>> THEN [err |-> "none", row |-> row]
  ELSE LET val == evaluateExpression(g, Head(items).Expr, match)
       IN IF val.err # "none" THEN [err |-> val.err, row |-> row]
          ELSE ProjectRow(g, Tail(items), match,
                          Put(row, ColumnName(Head(items), Cardinality(DOMAIN row)), val.val))

\* ProjectOperator.Execute: result [err, rows]
RECURSIVE ProjectExecute(_, _, _)
ProjectExecute(g, p, matches) ==
  IF matches = <<>> THEN [err |-> "none", rows |-> <<>>]
  ELSE LET first == ProjectRow(g, p.Items, Head(matches), EmptyMatch)
           rest == ProjectExecute(g, p, Tail(matches))
       IN IF first.err # "none" THEN [err |-> first.err, rows |-> <<>>]
          ELSE IF rest.err # "none" THEN rest
          ELSE [err |-> "none", rows |-> <<first.row>> \o rest.rows]

\* list[:count] when len(list) > count
Truncated(list, count) == IF Len(list) > count THEN SubSeq(list, 1, count) ELSE list

\* Variant of LimitOperator.Execute that lets one entry too many through.
LimitExecute_OffByOne(l, ctx) ==
  [ctx EXCEPT !.rows = Truncated(@, l.Count + 1), !.matches = Truncated(@, l.Count + 1)]

\* LimitOperator.Execute on the context [err, matches, rows]
LimitExecute(l, ctx) ==
  [ctx EXCEPT !.rows = Truncated(@, l.Count), !.matches = Truncated(@, l.Count)]

\* the filters variable.k = v of a node pattern's inline properties
RECURSIVE InlineFilters(_, _, _)
InlineFilters(variable, properties, keys) ==
  IF keys = {} THEN <<>>
  ELSE LET k == CHOOSE k \in keys : TRUE
       IN <<[op |-> "Filter",
             Predicate |-> BinaryExpr(PropertyAccess(variable, k), "=",
                                      Literal(properties[k]))]>>
          \o InlineFilters(variable, properties, keys \ {k})

\* the Expand operators, and the filters of their target nodes, from edge pattern i on
RECURSIVE Expansions(_, _)
Expansions(q, i) ==
  IF i > Len(q.edges) THEN <<>>
  ELSE LET edge == q.edges[i]
           targetNode == q.nodes[i + 1]
       IN <<[op |-> "Expand", SourceVar |-> q.nodes[i].Variable,
             TargetVar |-> targetNode.Variable, EdgeVar |-> edge.Variable,
             Direction |-> edge.Direction, EdgeType |-> edge.Type]>>
          \o InlineFilters(targetNode.Variable, targetNode.Properties,
                           DOMAIN targetNode.Properties)
          \o Expansions(q, i + 1)

\* Variant of BuildExecutionPlan that puts the Limit operator before the Project.
BuildExecutionPlan_LimitFirst(q) ==
  LET startNode == q.nodes[1]
  IN <<[op |-> "Scan", Variable |-> startNode.Variable, Label |-> startNode.Label]>>
     \o InlineFilters(startNode.Variable, startNode.Properties, DOMAIN startNode.Properties)
     \o Expansions(q, 1)
     \o (IF q.where.type # "nil" THEN <<[op |-> "Filter", Predicate |-> q.where]>> ELSE <<>>)
     \o (IF q.limit >= 0 THEN <<[op |-> "Limit", Count |-> q.limit]>> ELSE <<>>)
     \o (IF q.items # <<>> THEN <<[op |-> "Project", Items |-> q.items]>> ELSE <<>>)

\* BuildExecutionPlan: the operators of q
BuildExecutionPlan(q) ==
  LET startNode == q.nodes[1]
  IN <<[op |-> "Scan", Variable |-> startNode.Variable, Label |-> startNode.Label]>>
     \o InlineFilters(startNode.Variable, startNode.Properties, DOMAIN startNode.Properties)
     \o Expansions(q, 1)
     \o (IF q.where.type # "nil" THEN <<[op |-> "Filter", Predicate |-> q.where]>> ELSE <<>>)
     \o (IF q.items # <<>> THEN <<[op |-> "Project", Items |-> q.items]>> ELSE <<>>)
     \o (IF q.limit >= 0 THEN <<[op |-> "Limit", Count |-> q.limit]>> ELSE <<>>)

\* one operator on the context [err, matches, rows]
OperatorExecute(g, o, ctx, order) ==
  CASE o.op = "Scan" -> [ctx EXCEPT !.matches = ScanExecute(g, o, ctx.matches, order)]
    [] o.op = "Filter" ->
         LET r == FilterExecute(g, o, ctx.matches)
         IN [ctx EXCEPT !.err = r.err, !.matches = r.matches]
    [] o.op = "Expand" ->
         LET r == ExpandExecute(g, o, ctx.matches)
         IN [ctx EXCEPT !.err = r.err, !.matches = r.matches]
    [] o.op = "Project" ->
         LET r == ProjectExecute(g, o, ctx.matches)
         IN [ctx EXCEPT !.err = r.err, !.rows = r.rows]
    [] o.op = "Limit" -> LimitExecute(o, ctx)

\* the loop of Query.Execute over the operators
RECURSIVE RunOperators(_, _, _, _)
RunOperators(g, ops, ctx, order) ==
  IF ops = <<>> THEN ctx
  ELSE LET next == OperatorExecute(g, Head(ops), ctx, order)
       IN IF next.err # "none" THEN [next EXCEPT !.rows = <<>>]
          ELSE IF next.matches = <<>> THEN next
          ELSE RunOperators(g, Tail(ops), next, order)

\* the column name Query.Execute gives a RETURN item
ResultColumn(item) ==
  IF item.Alias # "" THEN item.Alias
  ELSE IF item.Expr.type = "Identifier" THEN item.Expr.Name
  ELSE IF item.Expr.type = "PropertyAccess"
  THEN item.Expr.Variable \o "." \o item.Expr.Property
  ELSE "expr"

\* Query.Execute when IterateNodes visits the nodes in the order order: result
\* [err, Columns, rows]; there is no Result when an operator fails
Execute(g, q, order) ==
  LET ctx == RunOperators(g, BuildExecutionPlan(q),
                          [err |-> "none", matches |-> <<EmptyMatch>>, rows |-> <<>>], order)
  IN [err |-> ctx.err,
      Columns |-> IF ctx.err = "none" THEN [i \in 1..Len(q.items) |-> ResultColumn(q.items[i])]
                  ELSE <<>>,
      rows |-> ctx.rows]

\* Graph.IterateNodes: the orders in which it can visit the nodes, each node once
IterateNodes(g) ==
  LET ids == DOMAIN g.nodes
      n == Cardinality(ids)
  IN {order \in [1..n -> ids] : \A i, j \in 1..n : i # j => order[i] # order[j]}

\* the graphs the queries run on
QueryNodeLabels == {"Person", "Company"}
QueryEdgeLabels == {"KNOWS", "WORKS_AT"}

Item(expr) == [Expr |-> expr, Alias |-> ""]
Query(nodePatterns, edgePatterns, where, items, limit) ==
  [nodes |-> nodePatterns, edges |-> edgePatterns, where |-> where, items |-> items,
   limit |-> limit]

\* the queries that are executed
Queries ==
  << \* MATCH (n:Person) RETURN n
     Query(<<NodePattern("n", "Person", EmptyProps)>>, <<>>, NoExpr,
           <<Item(Identifier("n"))>>, -1),
     \* MATCH (n) RETURN n.id LIMIT 1
     Query(<<NodePattern("n", "", EmptyProps)>>, <<>>, NoExpr,
           <<Item(PropertyAccess("n", "id"))>>, 1),
     \* MATCH (n:Person {id: 1}) RETURN n
     Query(<<NodePattern("n", "Person", [id |-> IntVal(1)])>>, <<>>, NoExpr,
           <<Item(Identifier("n"))>>, -1),
     \* MATCH (n) WHERE n.id >= 1 RETURN n, n.id LIMIT 1
     Query(<<NodePattern("n", "", EmptyProps)>>, <<>>,
           BinaryExpr(PropertyAccess("n", "id"), ">=", Literal(IntVal(1))),
           <<Item(Identifier("n")), Item(PropertyAccess("n", "id"))>>, 1),
     \* MATCH (a:Person)-[:KNOWS]->(b) RETURN a, b
     Query(<<NodePattern("a", "Person", EmptyProps), NodePattern("b", "", EmptyProps)>>,
           <<EdgePattern("", "KNOWS", "Out")>>, NoExpr,
           <<Item(Identifier("a")), Item(Identifier("b"))>>, -1),
     \* MATCH (a)-[r]->(b) RETURN a, r, b
     Query(<<NodePattern("a", "", EmptyProps), NodePattern("b", "", EmptyProps)>>,
           <<EdgePattern("r", "", "Out")>>, NoExpr,
           <<Item(Identifier("a")), Item(Identifier("r")), Item(Identifier("b"))>>, -1),
     \* MATCH (a)<-[:KNOWS]-(b) RETURN a, b
     Query(<<NodePattern("a", "", EmptyProps), NodePattern("b", "", EmptyProps)>>,
           <<EdgePattern("", "KNOWS", "In")>>, NoExpr,
           <<Item(Identifier("a")), Item(Identifier("b"))>>, -1) >>

\* what the query specification leaves alone
beyondGraph == <<walVars, snapLatest, faults, restarts, histVars, threadVars, mu, stamped,
                 returned, snapPrev, walTail, rollbackFailed, dirVars>>

\* the graph is built before the queries are run
Building == lastOp.op # "Execute"

QueryAddNode ==
  /\ Building
  /\ nextNodeID <= QueryMaxNodeID
  /\ \E label \in QueryNodeLabels, properties \in NodePropChoices :
       LET r == Graph_AddNode(G, label, properties)
       IN /\ SetG(r.g)
          /\ lastOp' = Op("AddNode", r.id, "none", "none", 0)
  /\ UNCHANGED <<beyondGraph, queryVars, restVars>>

QueryAddEdge ==
  /\ Building
  /\ nextEdgeID <= QueryMaxEdgeID
  /\ \E source \in DOMAIN nodes, target \in DOMAIN nodes, label \in QueryEdgeLabels :
       LET r == Graph_AddEdge(G, source, target, label, EmptyProps)
       IN /\ SetG(r.g)
          /\ lastOp' = Op("AddEdge", r.id, r.err, "none", 0)
  /\ UNCHANGED <<beyondGraph, queryVars, restVars>>

\* Query.Execute(g)
ExecuteQuery ==
  /\ \E i \in 1..Len(Queries), order \in IterateNodes(G) :
       /\ query' = Queries[i]
       /\ visit' = order
       /\ result' = Execute(G, Queries[i], order)
       /\ lastOp' = Op("Execute", i, "none", "none", 0)
  /\ UNCHANGED <<graphVars, beyondGraph, restVars>>

NextQuery ==
  \/ QueryAddNode
  \/ QueryAddEdge
  \/ ExecuteQuery

SpecQuery == Init /\ [][NextQuery]_vars

----------------------------------------------------------------------------
(* pkg/query: queries built as ASTs, with every kind of RETURN item and     *)
(* with node patterns that have no variable                                 *)

Aliased(expr, alias) == [Expr |-> expr, Alias |-> alias]

ReturnQueries ==
  << \* MATCH (n) RETURN n AS who
     Query(<<NodePattern("n", "", EmptyProps)>>, <<>>, NoExpr,
           <<Aliased(Identifier("n"), "who")>>, -1),
     \* MATCH (n) RETURN n, n.id
     Query(<<NodePattern("n", "", EmptyProps)>>, <<>>, NoExpr,
           <<Item(Identifier("n")), Item(PropertyAccess("n", "id"))>>, -1),
     \* MATCH (n) RETURN 1
     Query(<<NodePattern("n", "", EmptyProps)>>, <<>>, NoExpr,
           <<Item(Literal(IntVal(1)))>>, -1),
     \* MATCH (n) RETURN n.id AS id, 7 AS seven
     Query(<<NodePattern("n", "", EmptyProps)>>, <<>>, NoExpr,
           <<Aliased(PropertyAccess("n", "id"), "id"), Aliased(Literal(IntVal(7)), "seven")>>,
           -1),
     \* MATCH ()-[:KNOWS]->(b) RETURN b
     Query(<<NodePattern("", "", EmptyProps), NodePattern("b", "", EmptyProps)>>,
           <<EdgePattern("", "KNOWS", "Out")>>, NoExpr, <<Item(Identifier("b"))>>, -1),
     \* MATCH (a)-[:KNOWS]->()-[:KNOWS]->(c) RETURN a, c
     Query(<<NodePattern("a", "", EmptyProps), NodePattern("", "", EmptyProps),
             NodePattern("c", "", EmptyProps)>>,
           <<EdgePattern("", "KNOWS", "Out"), EdgePattern("", "KNOWS", "Out")>>, NoExpr,
           <<Item(Identifier("a")), Item(Identifier("c"))>>, -1),
     \* MATCH (a)-[:KNOWS]->() RETURN a
     Query(<<NodePattern("a", "", EmptyProps), NodePattern("", "", EmptyProps)>>,
           <<EdgePattern("", "KNOWS", "Out")>>, NoExpr, <<Item(Identifier("a"))>>, -1) >>

\* Query.Execute(g)
ExecuteReturn ==
  /\ \E i \in 1..Len(ReturnQueries), order \in IterateNodes(G) :
       /\ query' = ReturnQueries[i]
       /\ visit' = order
       /\ result' = Execute(G, ReturnQueries[i], order)
       /\ lastOp' = Op("Execute", i, "none", "none", 0)
  /\ UNCHANGED <<graphVars, beyondGraph, restVars>>

NextReturn ==
  \/ QueryAddNode
  \/ QueryAddEdge
  \/ ExecuteReturn

SpecReturn == Init /\ [][NextReturn]_vars

----------------------------------------------------------------------------
(* pkg/query: the planner on its own, over queries of up to PlanMaxNodes    *)
(* node patterns with up to two inline properties each                      *)

PlanProps == {EmptyProps, [id |-> IntVal(1)], [id |-> IntVal(1), age |-> IntVal(2)]}
PlanNames == <<"a", "b", "c", "d">>
PlanWheres == {NoExpr, BinaryExpr(PropertyAccess("a", "id"), ">=", Literal(IntVal(1)))}
PlanReturns == {<<>>, <<Item(Identifier("a"))>>}
PlanLimits == {-1, 0, 2}

\* the queries MATCH (a {..})-[:KNOWS]->(b {..})... WHERE ... RETURN ... LIMIT ...
PlanQueries ==
  {Query([i \in 1..n |-> NodePattern(PlanNames[i], "", props[i])],
         [i \in 1..(n - 1) |-> EdgePattern("", "KNOWS", direction)],
         where, items, limit) :
     n \in 1..PlanMaxNodes, props \in [1..PlanMaxNodes -> PlanProps],
     direction \in {"Out", "In"}, where \in PlanWheres, items \in PlanReturns,
     limit \in PlanLimits}

\* BuildExecutionPlan(q)
PlanQuery ==
  /\ \E q \in PlanQueries :
       /\ query' = q
       /\ plan' = BuildExecutionPlan(q)
  /\ lastOp' = Op("Plan", 0, "none", "none", 0)
  /\ UNCHANGED <<graphVars, beyondGraph, visit, result, parseVars, searchVars, lockVars>>

NextPlan == PlanQuery

SpecPlan == Init /\ [][NextPlan]_vars

----------------------------------------------------------------------------
(* pkg/query: the lexer.  A query text is a sequence of one-character         *)
(* strings; a token is [Type, Literal] with Literal the characters of the     *)
(* token.                                                                     *)

\* the value of Body for x, with x worked out once: x, err := ...; Body
Once(x, Body(_)) == CHOOSE out \in {Body(v) : v \in {x}} : TRUE

LowerLetters ==
  <<"a", "b", "c", "d", "e", "f", "g", "h", "i", "j", "k", "l", "m", "n", "o", "p", "q", "r", "s", "t", "u", "v", "w", "x", "y", "z">>
UpperLetters ==
  <<"A", "B", "C", "D", "E", "F", "G", "H", "I", "J", "K", "L", "M", "N", "O", "P", "Q", "R", "S", "T", "U", "V", "W", "X", "Y", "Z">>
Digits == <<"0", "1", "2", "3", "4", "5", "6", "7", "8", "9">>

isLetter(ch) == \E i \in 1..26 : ch = LowerLetters[i] \/ ch = UpperLetters[i]
isDigit(ch) == \E i \in 1..10 : ch = Digits[i]

\* the zero byte that readChar delivers at the end of the input
NoChar == ""

\* l.ch when l.position is p (positions count from 1)
CharAt(input, p) == IF p >= 1 /\ p <= Len(input) THEN input[p] ELSE NoChar

\* the characters of a Go string as one string
RECURSIVE Str(_)
Str(chars) == IF chars = <<>> THEN "" ELSE Head(chars) \o Str(Tail(chars))

\* strings.ToUpper
ToUpperChar(ch) ==
  IF \E i \in 1..26 : ch = LowerLetters[i]
  THEN UpperLetters[CHOOSE i \in 1..26 : ch = LowerLetters[i]]
  ELSE ch
ToUpper(chars) == [i \in 1..Len(chars) |-> ToUpperChar(chars[i])]

\* lookupKeyword: the keys of the keywords map are looked up with the upper-cased
\* identifier (the keys "true" and "false" are lower case in the map)
lookupKeyword(ident) ==
  LET word == Str(ToUpper(ident))
  IN CASE word = "MATCH" -> "Match"
       [] word = "WHERE" -> "Where"
       [] word = "RETURN" -> "Return"
       [] word = "LIMIT" -> "Limit"
       [] word = "ORDER" -> "OrderBy"
       [] word = "BY" -> "OrderBy"
       [] word = "AND" -> "And"
       [] word = "OR" -> "Or"
       [] word = "true" -> "True"
       [] word = "false" -> "False"
       [] OTHER -> "Identifier"

Token(type, literal) == [Type |-> type, Literal |-> literal]

\* for Keep(l.ch) { l.readChar() }: the first position from p on whose character
\* Keep rejects (the zero byte at the end of the input is rejected by every Keep)
ReadWhile(input, p, Keep(_)) ==
  CHOOSE q \in p..(IF p > Len(input) THEN p ELSE Len(input) + 1) :
    /\ \A k \in p..(q - 1) : Keep(input[k])
    /\ q > Len(input) \/ ~Keep(input[q])

isBlank(ch) == ch \in {" ", "\t", "\n", "\r"}
isIdentifierChar(ch) == isLetter(ch) \/ isDigit(ch) \/ ch = "_"

\* skipWhitespace: the position of the first character from p on that is not blank
skipWhitespace(input, p) == ReadWhile(input, p, isBlank)

\* readIdentifier: the position after the identifier that starts at p
readIdentifier(input, p) == ReadWhile(input, p, isIdentifierChar)

\* readNumber: the position after the number that starts at p
readNumber(input, p) ==
  Once(ReadWhile(input, p, isDigit),
       LAMBDA q : IF CharAt(input, q) = "." /\ isDigit(CharAt(input, q + 1))
                  THEN ReadWhile(input, q + 1, isDigit) ELSE q)

\* readString: the position of the closing quote (or of the end of the input) of the
\* string whose opening quote is at p
RECURSIVE readString(_, _, _)
readString(input, p, quote) ==
  Once(p, LAMBDA at :
    LET ch == CharAt(input, at + 1)
    IN IF ch = quote \/ ch = NoChar THEN at + 1
       ELSE IF ch = "\\" /\ CharAt(input, at + 2) = quote THEN readString(input, at + 2, quote)
       ELSE readString(input, at + 1, quote))

\* Lexer.NextToken with l.position = p0: result [tok, pos], pos the position afterwards
NextToken(input, p0) ==
  Once(skipWhitespace(input, p0), LAMBDA p :
    LET ch == CharAt(input, p)
        peekChar == CharAt(input, p + 1)
        one(type) == [tok |-> Token(type, <<ch>>), pos |-> p + 1]
        two(type) == [tok |-> Token(type, <<ch, peekChar>>), pos |-> p + 2]
    IN CASE ch = "(" -> one("LeftParen")
         [] ch = ")" -> one("RightParen")
         [] ch = "[" -> one("LeftBracket")
         [] ch = "]" -> one("RightBracket")
         [] ch = "{" -> one("LeftBrace")
         [] ch = "}" -> one("RightBrace")
         [] ch = "," -> one("Comma")
         [] ch = "." -> IF peekChar = "." THEN two("DotDot") ELSE one("Dot")
         [] ch = ":" -> one("Colon")
         [] ch = "*" -> one("Star")
         [] ch = "-" -> IF peekChar = ">" THEN two("Arrow") ELSE one("Dash")
         [] ch = "<" -> IF peekChar = "-" THEN two("LeftArrow")
                        ELSE IF peekChar = "=" THEN two("LessEqual") ELSE one("Less")
         [] ch = ">" -> IF peekChar = "=" THEN two("GreaterEqual") ELSE one("Greater")
         [] ch = "=" -> one("Equal")
         [] ch = "!" -> IF peekChar = "=" THEN two("NotEqual") ELSE one("Illegal")
         [] ch = "\"" \/ ch = "'" ->
              Once(readString(input, p, ch), LAMBDA q :
                [tok |-> Token("String", SubSeq(input, p + 1, q - 1)), pos |-> q + 1])
         [] ch = NoChar -> [tok |-> Token("EOF", <<>>), pos |-> p + 1]
         [] OTHER ->
              IF isLetter(ch)
              THEN Once(readIdentifier(input, p), LAMBDA q :
                     [tok |-> Token(lookupKeyword(SubSeq(input, p, q - 1)),
                                    SubSeq(input, p, q - 1)),
                      pos |-> q])
              ELSE IF isDigit(ch)
              THEN Once(readNumber(input, p), LAMBDA q :
                     [tok |-> Token("Number", SubSeq(input, p, q - 1)), pos |-> q])
              ELSE one("Illegal"))

\* the tokens NextToken delivers from position p on, up to and including the first EOF
RECURSIVE Tokens(_, _)
Tokens(input, p) ==
  Once(NextToken(input, p), LAMBDA t :
    IF t.tok.Type = "EOF" THEN <<t.tok>> ELSE <<t.tok>> \o Tokens(input, t.pos))

----------------------------------------------------------------------------
(* pkg/query: the parser.  The parser's state is the token sequence of its    *)
(* lexer and the index i of p.current (p.peek is the token after it); every   *)
(* parse function yields [err, pos, val]: the error ("" for nil), the index   *)
(* of p.current afterwards and the parsed value.                              *)

\* NewParser: the tokens the parser will draw from its lexer by nextToken
NewParser(input) == Tokens(input, 1)

\* p.current when it is the i-th token drawn (NextToken keeps answering EOF at the end)
TokenAt(toks, i) == IF i <= Len(toks) THEN toks[i] ELSE Token("EOF", <<>>)
currentTokenIs(toks, i, t) == TokenAt(toks, i).Type = t
peekTokenIs(toks, i, t) == TokenAt(toks, i + 1).Type = t

Parsed(pos, val) == [err |-> "", pos |-> pos, val |-> val]
Failed(err, pos) == [err |-> err, pos |-> pos, val |-> Null]

\* x, err := ...; if err != nil { return nil, err }; Body
Try(x, Body(_)) == Once(x, LAMBDA v : IF v.err # "" THEN v ELSE Body(v))

\* strconv.Atoi on the literal of a Number token (digits, or digits "." digits)
DigitValue(ch) == (CHOOSE i \in 1..10 : Digits[i] = ch) - 1
RECURSIVE Atoi(_)
Atoi(chars) ==
  IF chars = <<>> THEN 0
  ELSE 10 * Atoi(SubSeq(chars, 1, Len(chars) - 1)) + DigitValue(chars[Len(chars)])
IsInteger(chars) == chars # <<>> /\ \A k \in 1..Len(chars) : isDigit(chars[k])
\* the digits before the decimal point
WholePart(chars) ==
  SubSeq(chars, 1, (CHOOSE k \in 1..Len(chars) : chars[k] = "." ) - 1)

\* parseLiteral; a float64 is kept as its whole part together with its text
parseLiteral(toks, i) ==
  LET lit == TokenAt(toks, i).Literal
  IN CASE currentTokenIs(toks, i, "String") -> Parsed(i + 1, Literal(StrVal(Str(lit))))
       [] currentTokenIs(toks, i, "Number") ->
            IF IsInteger(lit) THEN Parsed(i + 1, Literal(IntVal(Atoi(lit))))
            ELSE Parsed(i + 1, Literal([kind |-> "float64", num |-> Atoi(WholePart(lit)),
                                        str |-> Str(lit)]))
       [] currentTokenIs(toks, i, "True") -> Parsed(i + 1, Literal(BoolVal(TRUE)))
       [] currentTokenIs(toks, i, "False") -> Parsed(i + 1, Literal(BoolVal(FALSE)))
       [] OTHER -> Failed("unexpected token", i)

\* the loop of parseProperties with p.current at i and props filled so far
RECURSIVE parsePropertiesLoop(_, _, _)
parsePropertiesLoop(toks, i, props) ==
  IF currentTokenIs(toks, i, "RightBrace") THEN Parsed(i + 1, props)
  ELSE IF ~currentTokenIs(toks, i, "Identifier") THEN Failed("expected property name", i)
  ELSE IF ~currentTokenIs(toks, i + 1, "Colon") THEN Failed("expected : after property name", i + 1)
  ELSE Try(parseLiteral(toks, i + 2), LAMBDA valueExpr :
         Once(Put(props, Str(TokenAt(toks, i).Literal), valueExpr.val.Value), LAMBDA filled :
           IF currentTokenIs(toks, valueExpr.pos, "Comma")
           THEN parsePropertiesLoop(toks, valueExpr.pos + 1, filled)
           ELSE IF ~currentTokenIs(toks, valueExpr.pos, "RightBrace")
           THEN Failed("expected , or } in properties", valueExpr.pos)
           ELSE parsePropertiesLoop(toks, valueExpr.pos, filled)))

\* parseProperties
parseProperties(toks, i) ==
  IF ~currentTokenIs(toks, i, "LeftBrace") THEN Failed("expected {", i)
  ELSE parsePropertiesLoop(toks, i + 1, EmptyProps)

\* parseNodePattern
parseNodePattern(toks, i0) ==
  Once(i0, LAMBDA i :
    IF ~currentTokenIs(toks, i, "LeftParen") THEN Failed("expected ( for node pattern", i)
    ELSE
      LET i1 == i + 1
          hasVar == currentTokenIs(toks, i1, "Identifier")
          variable == IF hasVar THEN Str(TokenAt(toks, i1).Literal) ELSE ""
          i2 == IF hasVar THEN i1 + 1 ELSE i1
          hasColon == currentTokenIs(toks, i2, "Colon")
      IN IF hasColon /\ ~currentTokenIs(toks, i2 + 1, "Identifier")
         THEN Failed("expected label after :", i2 + 1)
         ELSE
           LET label == IF hasColon THEN Str(TokenAt(toks, i2 + 1).Literal) ELSE ""
               i3 == IF hasColon THEN i2 + 2 ELSE i2
           IN Try(IF currentTokenIs(toks, i3, "LeftBrace") THEN parseProperties(toks, i3)
                  ELSE Parsed(i3, EmptyProps),
                  LAMBDA props :
                    IF ~currentTokenIs(toks, props.pos, "RightParen")
                    THEN Failed("expected ) to close node pattern", props.pos)
                    ELSE Parsed(props.pos + 1, NodePattern(variable, label, props.val))))

\* parseEdgePattern; edge.Direction starts as the zero value, DirectionOut
parseEdgePattern_ArrowWins(toks, i0) ==
  Once(i0, LAMBDA i :
    IF ~(currentTokenIs(toks, i, "LeftArrow") \/ currentTokenIs(toks, i, "Dash"))
    THEN Failed("expected - or <- to start edge pattern", i)
    ELSE
      LET i1 == i + 1
      IN IF ~currentTokenIs(toks, i1, "LeftBracket") THEN Failed("expected [ in edge pattern", i1)
         ELSE
           LET i2 == i1 + 1
               hasVar == currentTokenIs(toks, i2, "Identifier")
               variable == IF hasVar THEN Str(TokenAt(toks, i2).Literal) ELSE ""
               i3 == IF hasVar THEN i2 + 1 ELSE i2
               hasColon == currentTokenIs(toks, i3, "Colon")
           IN IF hasColon /\ ~currentTokenIs(toks, i3 + 1, "Identifier")
              THEN Failed("expected edge type after :", i3 + 1)
              ELSE
                LET type == IF hasColon THEN Str(TokenAt(toks, i3 + 1).Literal) ELSE ""
                    i4 == IF hasColon THEN i3 + 2 ELSE i3
                IN IF ~currentTokenIs(toks, i4, "RightBracket")
                   THEN Failed("expected ] to close edge pattern", i4)
                   ELSE
                     LET i5 == i4 + 1
                     IN IF currentTokenIs(toks, i5, "Arrow")
                        THEN Parsed(i5 + 1, EdgePattern(variable, type, "Out"))
                        ELSE IF currentTokenIs(toks, i5, "Dash")
                        THEN Parsed(i5 + 1, EdgePattern(variable, type,
                               IF currentTokenIs(toks, i, "LeftArrow") THEN "In" ELSE "Both"))
                        ELSE Parsed(i5, EdgePattern(variable, type,
                               IF currentTokenIs(toks, i, "LeftArrow") THEN "In" ELSE "Both")))
parseEdgePattern(toks, i0) ==
  Once(i0, LAMBDA i :
    IF ~(currentTokenIs(toks, i, "LeftArrow") \/ currentTokenIs(toks, i, "Dash"))
    THEN Failed("expected - or <- to start edge pattern", i)
    ELSE
      LET start == IF currentTokenIs(toks, i, "LeftArrow") THEN "In" ELSE "Out"
          i1 == i + 1
      IN IF ~currentTokenIs(toks, i1, "LeftBracket") THEN Failed("expected [ in edge pattern", i1)
         ELSE
           LET i2 == i1 + 1
               hasVar == currentTokenIs(toks, i2, "Identifier")
               variable == IF hasVar THEN Str(TokenAt(toks, i2).Literal) ELSE ""
               i3 == IF hasVar THEN i2 + 1 ELSE i2
               hasColon == currentTokenIs(toks, i3, "Colon")
           IN IF hasColon /\ ~currentTokenIs(toks, i3 + 1, "Identifier")
              THEN Failed("expected edge type after :", i3 + 1)
              ELSE
                LET type == IF hasColon THEN Str(TokenAt(toks, i3 + 1).Literal) ELSE ""
                    i4 == IF hasColon THEN i3 + 2 ELSE i3
                IN IF ~currentTokenIs(toks, i4, "RightBracket")
                   THEN Failed("expected ] to close edge pattern", i4)
                   ELSE
                     LET i5 == i4 + 1
                     IN IF currentTokenIs(toks, i5, "Arrow")
                        THEN Parsed(i5 + 1, EdgePattern(variable, type,
                               IF start = "In" THEN "Both" ELSE "Out"))
                        ELSE IF currentTokenIs(toks, i5, "Dash")
                        THEN Parsed(i5 + 1, EdgePattern(variable, type,
                               IF start = "Out" THEN "Both" ELSE start))
                        ELSE Parsed(i5, EdgePattern(variable, type,
                               IF start = "Out" THEN "Both" ELSE start)))

\* the loop of parsePattern: edges and their target nodes
RECURSIVE parsePatternLoop(_, _, _)
parsePatternLoop(toks, i, pattern) ==
  IF ~(currentTokenIs(toks, i, "Dash") \/ currentTokenIs(toks, i, "LeftArrow"))
  THEN Parsed(i, pattern)
  ELSE Try(parseEdgePattern(toks, i), LAMBDA edge :
         Try(parseNodePattern(toks, edge.pos), LAMBDA node :
           Once([Nodes |-> Append(pattern.Nodes, node.val),
                 Edges |-> Append(pattern.Edges, edge.val)],
                LAMBDA longer : parsePatternLoop(toks, node.pos, longer))))

\* parsePattern
parsePattern(toks, i) ==
  Try(parseNodePattern(toks, i), LAMBDA node :
    parsePatternLoop(toks, node.pos, [Nodes |-> <<node.val>>, Edges |-> <<>>]))

\* parseMatchClause: one pattern
parseMatchClause(toks, i) ==
  IF ~currentTokenIs(toks, i, "Match") THEN Failed("expected MATCH", i)
  ELSE parsePattern(toks, i + 1)

\* parsePrimaryExpression
parsePrimaryExpression(toks, i0) ==
  Once(i0, LAMBDA i :
    IF currentTokenIs(toks, i, "Identifier") /\ peekTokenIs(toks, i, "Dot")
    THEN IF ~currentTokenIs(toks, i + 2, "Identifier")
         THEN Failed("expected property name after .", i + 2)
         ELSE Parsed(i + 3, PropertyAccess(Str(TokenAt(toks, i).Literal),
                                           Str(TokenAt(toks, i + 2).Literal)))
    ELSE IF currentTokenIs(toks, i, "Identifier")
    THEN Parsed(i + 1, Identifier(Str(TokenAt(toks, i).Literal)))
    ELSE parseLiteral(toks, i))

ComparisonTokens == {"Equal", "NotEqual", "Less", "LessEqual", "Greater", "GreaterEqual"}

\* parseComparisonExpression
parseComparisonExpression(toks, i) ==
  Try(parsePrimaryExpression(toks, i), LAMBDA left :
    IF TokenAt(toks, left.pos).Type \in ComparisonTokens
    THEN Try(parsePrimaryExpression(toks, left.pos + 1), LAMBDA right :
           Parsed(right.pos,
                  BinaryExpr(left.val, Str(TokenAt(toks, left.pos).Literal), right.val)))
    ELSE left)

\* the loop of parseAndExpression
RECURSIVE parseAndLoop(_, _, _)
parseAndLoop(toks, i0, left0) ==
  Once(<<i0, left0>>, LAMBDA at :
    LET i == at[1]
        left == at[2]
    IN IF ~currentTokenIs(toks, i, "And") THEN Parsed(i, left)
       ELSE Try(parseComparisonExpression(toks, i + 1), LAMBDA right :
              parseAndLoop(toks, right.pos,
                           BinaryExpr(left, Str(TokenAt(toks, i).Literal), right.val))))

\* parseAndExpression
parseAndExpression(toks, i) ==
  Try(parseComparisonExpression(toks, i), LAMBDA left : parseAndLoop(toks, left.pos, left.val))

\* the loop of parseOrExpression
RECURSIVE parseOrLoop(_, _, _)
parseOrLoop(toks, i0, left0) ==
  Once(<<i0, left0>>, LAMBDA at :
    LET i == at[1]
        left == at[2]
    IN IF ~currentTokenIs(toks, i, "Or") THEN Parsed(i, left)
       ELSE Try(parseAndExpression(toks, i + 1), LAMBDA right :
              parseOrLoop(toks, right.pos,
                          BinaryExpr(left, Str(TokenAt(toks, i).Literal), right.val))))

\* parseOrExpression, which is parseExpression
parseOrExpression(toks, i) ==
  Try(parseAndExpression(toks, i), LAMBDA left : parseOrLoop(toks, left.pos, left.val))

\* parseWhereClause
parseWhereClause(toks, i) ==
  IF ~currentTokenIs(toks, i, "Where") THEN Failed("expected WHERE", i)
  ELSE parseOrExpression(toks, i + 1)

\* the loop of parseReturnClause
RECURSIVE parseReturnLoop(_, _, _)
parseReturnLoop(toks, i, items0) ==
  Once(items0, LAMBDA items :
    Try(parsePrimaryExpression(toks, i), LAMBDA expr :
      IF ~currentTokenIs(toks, expr.pos, "Comma")
      THEN Parsed(expr.pos, Append(items, Item(expr.val)))
      ELSE parseReturnLoop(toks, expr.pos + 1, Append(items, Item(expr.val)))))

\* parseReturnClause
parseReturnClause(toks, i) ==
  IF ~currentTokenIs(toks, i, "Return") THEN Failed("expected RETURN", i)
  ELSE parseReturnLoop(toks, i + 1, <<>>)

\* parseLimitClause
parseLimitClause(toks, i) ==
  IF ~currentTokenIs(toks, i, "Limit") THEN Failed("expected LIMIT", i)
  ELSE IF ~currentTokenIs(toks, i + 1, "Number") THEN Failed("expected number after LIMIT", i + 1)
  ELSE IF ~IsInteger(TokenAt(toks, i + 1).Literal) THEN Failed("invalid LIMIT value", i + 1)
  ELSE Parsed(i + 2, Atoi(TokenAt(toks, i + 1).Literal))

\* Parser.Parse of a parser whose lexer yields toks: [err, pos, val] with val the
\* Query; p.errors is never appended to by the parse functions, so its final test
\* never fires
Parse(toks) ==
  Try(IF currentTokenIs(toks, 1, "Match") THEN parseMatchClause(toks, 1)
      ELSE Parsed(1, [Nodes |-> <<>>, Edges |-> <<>>]),
      LAMBDA match :
  Try(IF currentTokenIs(toks, match.pos, "Where") THEN parseWhereClause(toks, match.pos)
      ELSE Parsed(match.pos, NoExpr),
      LAMBDA where :
  Try(IF currentTokenIs(toks, where.pos, "Return") THEN parseReturnClause(toks, where.pos)
      ELSE Parsed(where.pos, <<>>),
      LAMBDA ret :
  Try(IF currentTokenIs(toks, ret.pos, "Limit") THEN parseLimitClause(toks, ret.pos)
      ELSE Parsed(ret.pos, -1),
      LAMBDA limit :
        Parsed(limit.pos,
               Query(match.val.Nodes, match.val.Edges, where.val, ret.val, limit.val))))))

----------------------------------------------------------------------------
(* Parsing query texts: a text is typed, stray characters get into it, and    *)
(* Parse is applied to it.                                                    *)

\* query texts in the style of the parser's tests, the three of TestParser_Errors last
QueryTexts ==
  << \* MATCH (n:Person) RETURN n
     <<"M", "A", "T", "C", "H", " ", "(", "n", ":", "P", "e", "r", "s", "o", "n", ")", " ", "R", "E", "T", "U", "R", "N", " ", "n">>,
     \* MATCH (n) WHERE n.id >= 1 RETURN n LIMIT 1
     <<"M", "A", "T", "C", "H", " ", "(", "n", ")", " ", "W", "H", "E", "R", "E", " ", "n", ".", "i", "d", " ", ">", "=", " ", "1", " ", "R", "E", "T", "U", "R", "N", " ", "n", " ", "L", "I", "M", "I", "T", " ", "1">>,
     \* MATCH (n {id: 1}) RETURN n.id
     <<"M", "A", "T", "C", "H", " ", "(", "n", " ", "{", "i", "d", ":", " ", "1", "}", ")", " ", "R", "E", "T", "U", "R", "N", " ", "n", ".", "i", "d">>,
     \* MATCH (n) WHERE n.a != 1 AND n.b = 'x' RETURN n
     <<"M", "A", "T", "C", "H", " ", "(", "n", ")", " ", "W", "H", "E", "R", "E", " ", "n", ".", "a", " ", "!", "=", " ", "1", " ", "A", "N", "D", " ", "n", ".", "b", " ", "=", " ", "'", "x", "'", " ", "R", "E", "T", "U", "R", "N", " ", "n">>,
     \* MATCH (a)-[:T]->(b)<-[r]-(c) RETURN a, c
     <<"M", "A", "T", "C", "H", " ", "(", "a", ")", "-", "[", ":", "T", "]", "-", ">", "(", "b", ")", "<", "-", "[", "r", "]", "-", "(", "c", ")", " ", "R", "E", "T", "U", "R", "N", " ", "a", ",", " ", "c">>,
     \* MATCH (n RETURN n
     <<"M", "A", "T", "C", "H", " ", "(", "n", " ", "R", "E", "T", "U", "R", "N", " ", "n">>,
     \* MATCH (a)-[>(b) RETURN a
     <<"M", "A", "T", "C", "H", " ", "(", "a", ")", "-", "[", ">", "(", "b", ")", " ", "R", "E", "T", "U", "R", "N", " ", "a">>,
     \* MATCH (n) WHERE RETURN n
     <<"M", "A", "T", "C", "H", " ", "(", "n", ")", " ", "W", "H", "E", "R", "E", " ", "R", "E", "T", "U", "R", "N", " ", "n">> >>

\* the parts of MATCH (a:P) <edge> (b) RETURN a, b
PatternHead == <<"M", "A", "T", "C", "H", " ", "(", "a", ":", "P", ")">>
PatternTail == <<"(", "b", ")", " ", "R", "E", "T", "U", "R", "N", " ", "a", ",", " ", "b">>
EdgeStarts == <<<<"-">>, <<"<", "-">>>>
EdgeInners == <<<<"[", "]">>, <<"[", "r", "]">>, <<"[", ":", "T", "]">>, <<"[", "r", ":", "T", "]">>>>
EdgeEnds == <<<<"-", ">">>, <<"-">>, <<>> >>

\* characters that no token starts with, and "!" which only starts "!="
StrayChars == {"!", "@", "#"}

StrayCount(input) == Cardinality({k \in 1..Len(input) : input[k] \in StrayChars})

\* no Parse has been applied to the text yet
NotParsed == [err |-> "", pos |-> 0, val |-> Null]

\* a query text is typed
TypeQuery ==
  /\ \E i \in 1..Len(QueryTexts) :
       /\ text' = QueryTexts[i]
       /\ lastOp' = Op("Type", i, "none", "none", 0)
  /\ parsed' = NotParsed
  /\ tokens' = <<>>
  /\ UNCHANGED <<graphVars, beyondGraph, queryVars, searchVars, lockVars, planVars>>

\* a query text with one edge pattern is typed
TypeEdgeQuery ==
  /\ \E s \in 1..Len(EdgeStarts), n \in 1..Len(EdgeInners), e \in 1..Len(EdgeEnds) :
       /\ text' = PatternHead \o EdgeStarts[s] \o EdgeInners[n] \o EdgeEnds[e] \o PatternTail
       /\ lastOp' = Op("Type", 0, "none", "none", 0)
  /\ parsed' = NotParsed
  /\ tokens' = <<>>
  /\ UNCHANGED <<graphVars, beyondGraph, queryVars, searchVars, lockVars, planVars>>

\* a stray character gets into the text
Garble ==
  /\ text # <<>>
  /\ StrayCount(text) < ParseMaxStray
  /\ \E k \in 0..Len(text), c \in StrayChars :
       /\ text' = SubSeq(text, 1, k) \o <<c>> \o SubSeq(text, k + 1, Len(text))
       /\ lastOp' = Op("Garble", k, "none", "none", 0)
  /\ parsed' = NotParsed
  /\ tokens' = <<>>
  /\ UNCHANGED <<graphVars, beyondGraph, queryVars, searchVars, lockVars, planVars>>

\* NewParser(text).Parse()
ParseText ==
  /\ text # <<>>
  /\ \E p \in {NewParser(text)} :
       /\ tokens' = p
       /\ parsed' = Parse(p)
  /\ lastOp' = Op("Parse", 0, "none", "none", 0)
  /\ UNCHANGED <<graphVars, beyondGraph, queryVars, searchVars, lockVars, planVars, text>>

NextParse ==
  \/ TypeQuery
  \/ TypeEdgeQuery
  \/ Garble
  \/ ParseText

SpecParse == Init /\ [][NextParse]_vars

----------------------------------------------------------------------------
(* pkg/algorithms: BFS *)

\* Graph.GetNeighbors: the targets of the node's outgoing edges, in OutEdges order,
\* missing edges and missing targets skipped
RECURSIVE NeighborsAlong(_, _)
NeighborsAlong(g, outEdges) ==
  IF outEdges = <<>> THEN <<>>
  ELSE LET edgeID == Head(outEdges)
       IN (IF edgeID \in DOMAIN g.edges /\ g.edges[edgeID].Target \in DOMAIN g.nodes
           THEN <<g.edges[edgeID].Target>> ELSE <<>>) \o NeighborsAlong(g, Tail(outEdges))
GetNeighbors(g, nodeID) == NeighborsAlong(g, g.nodes[nodeID].OutEdges)

\* a nil targetNode
NoTarget == 0

\* reconstructPath: <<>> stands for nil
RECURSIVE reconstructFrom(_, _, _, _)
reconstructFrom(parentMap, start, curr, path) ==
  IF curr = start THEN path
  ELSE IF curr \notin DOMAIN parentMap THEN <<>>
  ELSE reconstructFrom(parentMap, start, parentMap[curr], <<parentMap[curr]>> \o path)
reconstructPath(parentMap, start, end) == reconstructFrom(parentMap, start, end, <<end>>)

\* the inner loop of BFS: the neighbors not yet visited are marked and queued
RECURSIVE EnqueueNeighbors(_, _, _, _)
EnqueueNeighbors(s, neighbors, current, dist) ==
  IF neighbors = <<>> THEN s
  ELSE LET id == Head(neighbors)
       IN IF id \in s.visited THEN EnqueueNeighbors(s, Tail(neighbors), current, dist)
          ELSE EnqueueNeighbors(
                 [s EXCEPT !.visited = @ \cup {id},
                           !.parentMap = Put(@, id, current),
                           !.distanceMap = Put(@, id, dist + 1),
                           !.queue = Append(@, id)],
                 Tail(neighbors), current, dist)

TraversalResult(visitedOrder, path, found, distance) ==
  [err |-> "none", VisitedOrder |-> visitedOrder, Path |-> path, Found |-> found,
   Distance |-> distance]

\* the outer loop of BFS, with s its queue, visited, parentMap, distanceMap and
\* result.VisitedOrder
RECURSIVE BFSLoop(_, _, _, _, _)
BFSLoop(g, startNode, targetNode, maxDepth, s) ==
  IF s.queue = <<>> THEN TraversalResult(s.VisitedOrder, <<>>, FALSE, 0)
  ELSE
    LET current == Head(s.queue)
        dist == s.distanceMap[current]
        s1 == [s EXCEPT !.queue = Tail(@), !.VisitedOrder = Append(@, current)]
    IN IF maxDepth > 0 /\ dist >= maxDepth
       THEN BFSLoop(g, startNode, targetNode, maxDepth, s1)
       ELSE IF targetNode # NoTarget /\ current = targetNode
       THEN TraversalResult(s1.VisitedOrder, reconstructPath(s1.parentMap, startNode, current),
                            TRUE, dist)
       ELSE BFSLoop(g, startNode, targetNode, maxDepth,
                    EnqueueNeighbors(s1, GetNeighbors(g, current), current, dist))

\* BFS(g, startNode, targetNode, maxDepth)
BFS(g, startNode, targetNode, maxDepth) ==
  IF startNode \notin DOMAIN g.nodes
  THEN [err |-> "notfound", VisitedOrder |-> <<>>, Path |-> <<>>, Found |-> FALSE,
        Distance |-> 0]
  ELSE BFSLoop(g, startNode, targetNode, maxDepth,
               [queue |-> <<startNode>>, visited |-> {startNode},
                parentMap |-> [n \in {} |-> 0],
                distanceMap |-> [n \in {startNode} |-> 0],
                VisitedOrder |-> <<>>])

\* the graph is built, as createTestGraph does, before anything is searched
Linking == lastOp.op # "BFS"

SearchAddNode ==
  /\ Linking
  /\ nextNodeID <= SearchMaxNodeID
  /\ LET r == Graph_AddNode(G, "Node", EmptyProps)
     IN /\ SetG(r.g)
        /\ lastOp' = Op("AddNode", r.id, "none", "none", 0)
  /\ UNCHANGED <<beyondGraph, queryVars, restVars>>

SearchAddEdge ==
  /\ Linking
  /\ nextEdgeID <= SearchMaxEdgeID
  /\ \E source \in DOMAIN nodes, target \in DOMAIN nodes :
       LET r == Graph_AddEdge(G, source, target, "LINK", EmptyProps)
       IN /\ SetG(r.g)
          /\ lastOp' = Op("AddEdge", r.id, r.err, "none", 0)
  /\ UNCHANGED <<beyondGraph, queryVars, restVars>>

\* BFS(g, startNode, &targetNode or nil, maxDepth); lastOp keeps the arguments
RunBFS ==
  /\ \E startNode \in 1..SearchMaxNodeID, targetNode \in 0..SearchMaxNodeID,
        maxDepth \in 0..SearchMaxDepth :
       /\ search' = BFS(G, startNode, targetNode, maxDepth)
       /\ lastOp' = Op("BFS", startNode, BFS(G, startNode, targetNode, maxDepth).err,
                       maxDepth, targetNode)
  /\ UNCHANGED <<graphVars, beyondGraph, queryVars, parseVars, lockVars, planVars>>

NextSearch ==
  \/ SearchAddNode
  \/ SearchAddEdge
  \/ RunBFS

SpecSearch == Init /\ [][NextSearch]_vars

----------------------------------------------------------------------------
(* pkg/algorithms: DFS *)

\* dfsRecursive with s its visited, parentMap and result.VisitedOrder: [found, s]
RECURSIVE dfsRecursive(_, _, _, _, _, _)
\* the loop of dfsRecursive over the neighbors still to look at
RECURSIVE dfsNeighbors(_, _, _, _, _, _, _)
dfsNeighbors(g, current, neighbors, target, maxDepth, currentDepth, s0) ==
  Once(<<neighbors, s0>>, LAMBDA at :
    LET rest == at[1]
        s == at[2]
    IN IF rest = <<>> THEN [found |-> FALSE, s |-> s]
       ELSE IF Head(rest) \in s.visited
       THEN dfsNeighbors(g, current, Tail(rest), target, maxDepth, currentDepth, s)
       ELSE Once(dfsRecursive(g, Head(rest), target, maxDepth, currentDepth + 1,
                              [s EXCEPT !.parentMap = Put(@, Head(rest), current)]),
                 LAMBDA r :
                   IF r.found THEN r
                   ELSE dfsNeighbors(g, current, Tail(rest), target, maxDepth, currentDepth, r.s)))

dfsRecursive(g, current, target, maxDepth, currentDepth, s0) ==
  Once([s0 EXCEPT !.visited = @ \cup {current},
                  !.VisitedOrder = Append(@, current)],
       LAMBDA s :
         IF target # NoTarget /\ current = target THEN [found |-> TRUE, s |-> s]
         ELSE IF maxDepth > 0 /\ currentDepth >= maxDepth THEN [found |-> FALSE, s |-> s]
         ELSE dfsNeighbors(g, current, GetNeighbors(g, current), target, maxDepth,
                           currentDepth, s))

\* DFS(g, startNode, targetNode, maxDepth)
DFS(g, startNode, targetNode, maxDepth) ==
  IF startNode \notin DOMAIN g.nodes
  THEN [err |-> "notfound", VisitedOrder |-> <<>>, Path |-> <<>>, Found |-> FALSE,
        Distance |-> 0]
  ELSE Once(dfsRecursive(g, startNode, targetNode, maxDepth, 0,
                         [visited |-> {}, parentMap |-> [n \in {} |-> 0],
                          VisitedOrder |-> <<>>]),
            LAMBDA r :
              IF r.found /\ targetNode # NoTarget
              THEN Once(reconstructPath(r.s.parentMap, startNode, targetNode), LAMBDA path :
                     TraversalResult(r.s.VisitedOrder, path, TRUE, Len(path) - 1))
              ELSE TraversalResult(r.s.VisitedOrder, <<>>, FALSE, 0))

\* the graph is built, nodes first as createTestGraph does, before it is traversed
Wiring == lastOp.op # "DFS"

DfsAddNode ==
  /\ Wiring
  /\ nextEdgeID = 1
  /\ nextNodeID <= DfsMaxNodeID
  /\ LET r == Graph_AddNode(G, "Node", EmptyProps)
     IN /\ SetG(r.g)
        /\ lastOp' = Op("AddNode", r.id, "none", "none", 0)
  /\ UNCHANGED <<beyondGraph, queryVars, restVars>>

DfsAddEdge ==
  /\ Wiring
  /\ nextEdgeID <= DfsMaxEdgeID
  /\ \E source \in DOMAIN nodes, target \in DOMAIN nodes :
       LET r == Graph_AddEdge(G, source, target, "LINK", EmptyProps)
       IN /\ SetG(r.g)
          /\ lastOp' = Op("AddEdge", r.id, r.err, "none", 0)
  /\ UNCHANGED <<beyondGraph, queryVars, restVars>>

\* DFS(g, startNode, &targetNode or nil, maxDepth); lastOp keeps the arguments
RunDFS ==
  /\ Wiring
  /\ \E startNode \in 1..DfsMaxNodeID, targetNode \in {NoTarget, DfsMaxNodeID},
        maxDepth \in 0..DfsMaxDepth :
       \E r \in {DFS(G, startNode, targetNode, maxDepth)} :
         /\ search' = r
         /\ lastOp' = Op("DFS", startNode, r.err, maxDepth, targetNode)
  /\ UNCHANGED <<graphVars, beyondGraph, queryVars, parseVars, lockVars, planVars>>

NextDFS ==
  \/ DfsAddNode
  \/ DfsAddEdge
  \/ RunDFS

SpecDFS == Init /\ [][NextDFS]_vars

----------------------------------------------------------------------------
(* The facade called from several threads, lock by lock.  A step of a call  *)
(* is one critical section (or one lock-free statement): LkAcquire takes    *)
(* the lock the step needs and the step's own action does its body and      *)
(* unlocks.  A thread that found a Node keeps the pointer: the object stays *)
(* in detached once it is deleted from Graph.nodes.  Appends succeed.       *)

Lock(name, id, mode) == [name |-> name, id |-> id, mode |-> mode]

\* the lock taken by the step thread t is at
Need(t) ==
  LET p == pc[t]
  IN IF p \in {"AddEdge.getSource", "AddEdge.getTarget", "DeleteEdge.getSource",
               "DeleteEdge.getTarget", "DeleteNode.get", "Neighbors.get", "Neighbors.node"}
     THEN Lock("nodesMu", 0, "R")
     ELSE IF p \in {"AddNode.store", "DeleteNode.delete"} THEN Lock("nodesMu", 0, "W")
     ELSE IF p \in {"DeleteEdge.get", "Neighbors.edge"} THEN Lock("edgesMu", 0, "R")
     ELSE IF p \in {"AddEdge.store", "DeleteEdge.delete"} THEN Lock("edgesMu", 0, "W")
     ELSE IF p = "AddEdge.out" THEN Lock("node", call[t].source, "W")
     ELSE IF p = "AddEdge.in" THEN Lock("node", call[t].target, "W")
     ELSE IF p = "DeleteEdge.removeOut" THEN Lock("node", frame[t].esrc, "W")
     ELSE IF p = "DeleteEdge.removeIn" THEN Lock("node", frame[t].etgt, "W")
     ELSE IF p \in {"DeleteNode.copy", "Neighbors.copy"} THEN Lock("node", call[t].id, "R")
     ELSE IF p \in {"log", "Snapshot.index", "Snapshot.truncate"} THEN Lock("walMu", 0, "W")
     ELSE IF p = "Snapshot.lock" THEN Lock("pgMu", 0, "R")
     ELSE Lock("none", 0, "R")

Mutex(lk, need) == IF need.name = "node" THEN lk.node[need.id] ELSE lk[need.name]

WithMutex(lk, need, m) ==
  IF need.name = "node" THEN [lk EXCEPT !.node[need.id] = m]
  ELSE [lk EXCEPT ![need.name] = m]

\* RLock / Lock would not block
Free(m, mode) == IF mode = "R" THEN m.w = 0 ELSE m.w = 0 /\ m.r = {}

\* RLock / Lock
Locked(m, mode, t) == IF mode = "R" THEN [m EXCEPT !.r = @ \cup {t}] ELSE [m EXCEPT !.w = t]

\* Variant of RUnlock / Unlock that leaves the mutex held.
Unlock_Keep(m, mode, t) == m

\* RUnlock / Unlock
Unlock(m, mode, t) == IF mode = "R" THEN [m EXCEPT !.r = @ \ {t}] ELSE [m EXCEPT !.w = 0]

\* the locks once thread t has left the critical section of its step
Released(t) ==
  IF frame[t].holding
  THEN WithMutex(locks, Need(t), Unlock(Mutex(locks, Need(t)), Need(t).mode, t))
  ELSE locks

\* thread t is at step label with the step's lock in hand
Ready(t, label) == pc[t] = label /\ (frame[t].holding \/ Need(t).name = "none")

\* the state the lock-level calls never touch
lkRest == <<faults, restarts, mu, stamped, returned, snapPrev, walTail, rollbackFailed,
            dirVars, queryVars, parseVars, searchVars, planVars>>

\* thread t leaves its step for step label with locals f
Step(t, label, f) ==
  /\ pc' = [pc EXCEPT ![t] = label]
  /\ frame' = [frame EXCEPT ![t] = [f EXCEPT !.holding = FALSE]]
  /\ locks' = Released(t)
  /\ UNCHANGED <<call, calls, lastOp, issuedNodeIDs, issuedEdgeIDs, lkRest>>

\* the call of thread t returns, having collected n neighbors
Return(t, id, res, n) ==
  /\ pc' = [pc EXCEPT ![t] = "idle"]
  /\ frame' = [frame EXCEPT ![t] = NoFrame]
  /\ locks' = Released(t)
  /\ call' = [call EXCEPT ![t] = NoCall]
  /\ calls' = [calls EXCEPT ![t] = @ + 1]
  /\ lastOp' = Op(call[t].op, id, res, "none", n)
  /\ issuedNodeIDs' = IF call[t].op = "AddNode" /\ res = "none"
                      THEN issuedNodeIDs \cup {id} ELSE issuedNodeIDs
  /\ issuedEdgeIDs' = IF call[t].op = "AddEdge" /\ res = "none"
                      THEN issuedEdgeIDs \cup {id} ELSE issuedEdgeIDs
  /\ UNCHANGED lkRest

\* the Node object a thread holds a pointer to
Object(id) == IF id \in DOMAIN nodes THEN nodes[id] ELSE detached[id]

\* a write through a pointer to a Node
SetObject(id, node) ==
  IF id \in DOMAIN nodes
  THEN nodes' = [nodes EXCEPT ![id] = node] /\ UNCHANGED detached
  ELSE detached' = [detached EXCEPT ![id] = node] /\ UNCHANGED nodes

\* the calls a thread may start: callers pass only IDs that an earlier call returned
Invocations ==
  {Call("AddNode", 0, 0, 0, label, EmptyProps) :
     label \in {l \in NodeLabels : nextNodeID <= LockMaxNodeID}}
  \cup {Call("AddEdge", 0, st[1], st[2], label, EmptyProps) :
          st \in issuedNodeIDs \X issuedNodeIDs,
          label \in {l \in EdgeLabels : nextEdgeID <= LockMaxEdgeID}}
  \cup {Call("DeleteNode", id, 0, 0, "", EmptyProps) : id \in issuedNodeIDs}
  \cup {Call("DeleteEdge", id, 0, 0, "", EmptyProps) : id \in issuedEdgeIDs}
  \cup {Call(name, id, 0, 0, "", EmptyProps) :
          name \in {"GetNeighbors", "GetIncomingNeighbors"}, id \in issuedNodeIDs}
  \cup {Call("Snapshot", 0, 0, 0, "", EmptyProps)}

\* the first step of a call
Entry(c) ==
  CASE c.op = "AddNode" -> "AddNode.allocate"
    [] c.op = "AddEdge" -> "AddEdge.getSource"
    [] c.op = "DeleteNode" -> "DeleteNode.get"
    [] c.op = "DeleteEdge" -> "DeleteEdge.get"
    [] c.op \in {"GetNeighbors", "GetIncomingNeighbors"} -> "Neighbors.get"
    [] c.op = "Snapshot" -> "Snapshot.lock"

LkInvoke(t) ==
  /\ pc[t] = "idle"
  /\ calls[t] < LockMaxCalls
  /\ \E c \in Invocations :
       /\ pc' = [pc EXCEPT ![t] = Entry(c)]
       /\ call' = [call EXCEPT ![t] = c]
       /\ frame' = [frame EXCEPT ![t] = [NoFrame EXCEPT !.eid = c.id]]
  /\ UNCHANGED <<graphVars, walVars, fullLog, snapLatest, lastOp, calls, issuedNodeIDs,
                 issuedEdgeIDs, locks, detached, lkRest>>

\* RLock / Lock of the mutex of the step thread t is at
LkAcquire(t) ==
  /\ pc[t] # "idle"
  /\ ~frame[t].holding
  /\ Need(t).name # "none"
  /\ Free(Mutex(locks, Need(t)), Need(t).mode)
  /\ locks' = WithMutex(locks, Need(t), Locked(Mutex(locks, Need(t)), Need(t).mode, t))
  /\ frame' = [frame EXCEPT ![t].holding = TRUE]
  /\ UNCHANGED <<graphVars, walVars, fullLog, snapLatest, lastOp, pc, call, calls,
                 issuedNodeIDs, issuedEdgeIDs, detached, lkRest>>

\* what the steps below leave alone besides what Step and Return cover
lkDisk == <<walVars, fullLog, snapLatest>>

\* Graph.AddNode: nodeID := g.nextNodeID.Add(1) - 1
LkAddNodeAllocate(t) ==
  /\ Ready(t, "AddNode.allocate")
  /\ nextNodeID' = nextNodeID + 1
  /\ Step(t, "AddNode.store", [frame[t] EXCEPT !.id = nextNodeID])
  /\ UNCHANGED <<nodes, edges, nextEdgeID, detached, lkDisk>>

\* Graph.AddNode: g.nodes[nodeID] = node under nodesMu
LkAddNodeStore(t) ==
  /\ Ready(t, "AddNode.store")
  /\ nodes' = Put(nodes, frame[t].id, NewNode(frame[t].id, call[t].label))
  /\ Step(t, "log", frame[t])
  /\ UNCHANGED <<edges, nextNodeID, nextEdgeID, detached, lkDisk>>

\* Graph.AddEdge: srcNode, err := g.GetNode(source)
LkAddEdgeGetSource(t) ==
  /\ Ready(t, "AddEdge.getSource")
  /\ IF call[t].source \in DOMAIN nodes
     THEN Step(t, "AddEdge.getTarget", frame[t])
     ELSE Return(t, 0, "notfound", 0)
  /\ UNCHANGED <<graphVars, detached, lkDisk>>

\* Graph.AddEdge: tgtNode, err := g.GetNode(target)
LkAddEdgeGetTarget(t) ==
  /\ Ready(t, "AddEdge.getTarget")
  /\ IF call[t].target \in DOMAIN nodes
     THEN Step(t, "AddEdge.allocate", frame[t])
     ELSE Return(t, 0, "notfound", 0)
  /\ UNCHANGED <<graphVars, detached, lkDisk>>

\* Graph.AddEdge: edgeID := g.nextEdgeID.Add(1) - 1
LkAddEdgeAllocate(t) ==
  /\ Ready(t, "AddEdge.allocate")
  /\ nextEdgeID' = nextEdgeID + 1
  /\ Step(t, "AddEdge.store", [frame[t] EXCEPT !.id = nextEdgeID])
  /\ UNCHANGED <<nodes, edges, nextNodeID, detached, lkDisk>>

\* Graph.AddEdge: g.edges[edgeID] = edge under edgesMu
LkAddEdgeStore(t) ==
  /\ Ready(t, "AddEdge.store")
  /\ edges' = Put(edges, frame[t].id,
                  NewEdge(frame[t].id, call[t].source, call[t].target, call[t].label))
  /\ Step(t, "AddEdge.out", frame[t])
  /\ UNCHANGED <<nodes, nextNodeID, nextEdgeID, detached, lkDisk>>

\* Graph.AddEdge: srcNode.AddOutEdge(edgeID)
LkAddEdgeOut(t) ==
  /\ Ready(t, "AddEdge.out")
  /\ SetObject(call[t].source, AddOutEdge(Object(call[t].source), frame[t].id))
  /\ Step(t, "AddEdge.in", frame[t])
  /\ UNCHANGED <<edges, nextNodeID, nextEdgeID, lkDisk>>

\* Graph.AddEdge: tgtNode.AddInEdge(edgeID)
LkAddEdgeIn(t) ==
  /\ Ready(t, "AddEdge.in")
  /\ SetObject(call[t].target, AddInEdge(Object(call[t].target), frame[t].id))
  /\ Step(t, "log", frame[t])
  /\ UNCHANGED <<edges, nextNodeID, nextEdgeID, lkDisk>>

\* the facade method's pg.wal.Log...: WAL.Append under WAL.mu, then the return
LkLog(t) ==
  /\ Ready(t, "log")
  /\ LET id == IF call[t].op \in {"AddNode", "AddEdge"} THEN frame[t].id ELSE call[t].id
     IN /\ SetW(LogCall(W, [call[t] EXCEPT !.id = id]).w)
        /\ Return(t, id, "none", 0)
  /\ UNCHANGED <<graphVars, snapLatest, detached>>

\* the edge after the one at hand in the loops of Graph.DeleteNode and of
\* Graph.GetNeighbors / Graph.GetIncomingNeighbors: the step and the locals
NextEdge(t, loop, done) ==
  LET rest == Tail(frame[t].todo)
  IN IF rest = <<>>
     THEN [label |-> done, f |-> [frame[t] EXCEPT !.todo = rest]]
     ELSE [label |-> loop, f |-> [frame[t] EXCEPT !.todo = rest, !.eid = Head(rest)]]

\* Graph.DeleteEdge is over: the caller, or the DeleteNode loop, goes on
AfterDeleteEdge(t, res) ==
  IF call[t].op = "DeleteNode"
  THEN LET n == NextEdge(t, "DeleteEdge.get", "DeleteNode.delete") IN Step(t, n.label, n.f)
  ELSE IF res = "none" THEN Step(t, "log", frame[t])
  ELSE Return(t, 0, res, 0)

\* Graph.DeleteEdge: edge, err := g.GetEdge(id)
LkDeleteEdgeGet(t) ==
  /\ Ready(t, "DeleteEdge.get")
  /\ IF frame[t].eid \in DOMAIN edges
     THEN Step(t, "DeleteEdge.getSource",
               [frame[t] EXCEPT !.esrc = edges[frame[t].eid].Source,
                                !.etgt = edges[frame[t].eid].Target])
     ELSE AfterDeleteEdge(t, "notfound")
  /\ UNCHANGED <<graphVars, detached, lkDisk>>

\* Graph.DeleteEdge: srcNode, _ := g.GetNode(edge.Source)
LkDeleteEdgeGetSource(t) ==
  /\ Ready(t, "DeleteEdge.getSource")
  /\ IF frame[t].esrc \in DOMAIN nodes
     THEN Step(t, "DeleteEdge.removeOut", frame[t])
     ELSE Step(t, "DeleteEdge.getTarget", frame[t])
  /\ UNCHANGED <<graphVars, detached, lkDisk>>

\* Graph.DeleteEdge: g.removeOutEdge(srcNode, id)
LkDeleteEdgeRemoveOut(t) ==
  /\ Ready(t, "DeleteEdge.removeOut")
  /\ SetObject(frame[t].esrc, removeOutEdge(Object(frame[t].esrc), frame[t].eid))
  /\ Step(t, "DeleteEdge.getTarget", frame[t])
  /\ UNCHANGED <<edges, nextNodeID, nextEdgeID, lkDisk>>

\* Graph.DeleteEdge: tgtNode, _ := g.GetNode(edge.Target)
LkDeleteEdgeGetTarget(t) ==
  /\ Ready(t, "DeleteEdge.getTarget")
  /\ IF frame[t].etgt \in DOMAIN nodes
     THEN Step(t, "DeleteEdge.removeIn", frame[t])
     ELSE Step(t, "DeleteEdge.delete", frame[t])
  /\ UNCHANGED <<graphVars, detached, lkDisk>>

\* Graph.DeleteEdge: g.removeInEdge(tgtNode, id)
LkDeleteEdgeRemoveIn(t) ==
  /\ Ready(t, "DeleteEdge.removeIn")
  /\ SetObject(frame[t].etgt, removeInEdge(Object(frame[t].etgt), frame[t].eid))
  /\ Step(t, "DeleteEdge.delete", frame[t])
  /\ UNCHANGED <<edges, nextNodeID, nextEdgeID, lkDisk>>

\* Graph.DeleteEdge: delete(g.edges, id) under edgesMu
LkDeleteEdgeDelete(t) ==
  /\ Ready(t, "DeleteEdge.delete")
  /\ edges' = Drop(edges, frame[t].eid)
  /\ AfterDeleteEdge(t, "none")
  /\ UNCHANGED <<nodes, nextNodeID, nextEdgeID, detached, lkDisk>>

\* Graph.DeleteNode: node, err := g.GetNode(id)
LkDeleteNodeGet(t) ==
  /\ Ready(t, "DeleteNode.get")
  /\ IF call[t].id \in DOMAIN nodes
     THEN Step(t, "DeleteNode.copy", frame[t])
     ELSE Return(t, 0, "notfound", 0)
  /\ UNCHANGED <<graphVars, detached, lkDisk>>

\* Graph.DeleteNode: the copies of node.OutEdges and node.InEdges under node.Mu
LkDeleteNodeCopy(t) ==
  /\ Ready(t, "DeleteNode.copy")
  /\ LET list == Object(call[t].id).OutEdges \o Object(call[t].id).InEdges
     IN IF list = <<>>
        THEN Step(t, "DeleteNode.delete", frame[t])
        ELSE Step(t, "DeleteEdge.get", [frame[t] EXCEPT !.todo = list, !.eid = Head(list)])
  /\ UNCHANGED <<graphVars, detached, lkDisk>>

\* Graph.DeleteNode: delete(g.nodes, id) under nodesMu
LkDeleteNodeDelete(t) ==
  /\ Ready(t, "DeleteNode.delete")
  /\ nodes' = Drop(nodes, call[t].id)
  /\ detached' = IF call[t].id \in DOMAIN nodes
                 THEN Put(detached, call[t].id, nodes[call[t].id]) ELSE detached
  /\ Step(t, "log", frame[t])
  /\ UNCHANGED <<edges, nextNodeID, nextEdgeID, lkDisk>>

\* Graph.GetNeighbors / Graph.GetIncomingNeighbors: node, err := g.GetNode(nodeID)
LkNeighborsGet(t) ==
  /\ Ready(t, "Neighbors.get")
  /\ IF call[t].id \in DOMAIN nodes
     THEN Step(t, "Neighbors.copy", frame[t])
     ELSE Return(t, 0, "notfound", 0)
  /\ UNCHANGED <<graphVars, detached, lkDisk>>

\* Graph.GetNeighbors / Graph.GetIncomingNeighbors: the copy of the adjacency list
LkNeighborsCopy(t) ==
  /\ Ready(t, "Neighbors.copy")
  /\ LET list == IF call[t].op = "GetNeighbors" THEN Object(call[t].id).OutEdges
                 ELSE Object(call[t].id).InEdges
     IN IF list = <<>>
        THEN Return(t, call[t].id, "none", 0)
        ELSE Step(t, "Neighbors.edge", [frame[t] EXCEPT !.todo = list, !.eid = Head(list)])
  /\ UNCHANGED <<graphVars, detached, lkDisk>>

\* the neighbor loop goes to its next edge or the call returns
AfterNeighbor(t, f) ==
  LET n == NextEdge(t, "Neighbors.edge", "idle")
      g == [n.f EXCEPT !.nbrs = f.nbrs]
  IN IF n.label = "idle"
     THEN Return(t, call[t].id, "none", Len(f.nbrs))
     ELSE Step(t, n.label, g)

\* Graph.GetNeighbors / Graph.GetIncomingNeighbors: edge, err := g.GetEdge(edgeID)
LkNeighborsEdge(t) ==
  /\ Ready(t, "Neighbors.edge")
  /\ IF frame[t].eid \in DOMAIN edges
     THEN Step(t, "Neighbors.node",
               [frame[t] EXCEPT !.etgt = IF call[t].op = "GetNeighbors"
                                         THEN edges[frame[t].eid].Target
                                         ELSE edges[frame[t].eid].Source])
     ELSE AfterNeighbor(t, frame[t])
  /\ UNCHANGED <<graphVars, detached, lkDisk>>

\* Graph.GetNeighbors / Graph.GetIncomingNeighbors: neighbor, err := g.GetNode(...)
LkNeighborsNode(t) ==
  /\ Ready(t, "Neighbors.node")
  /\ IF frame[t].etgt \in DOMAIN nodes
     THEN AfterNeighbor(t, [frame[t] EXCEPT !.nbrs = Append(@, frame[t].etgt)])
     ELSE AfterNeighbor(t, frame[t])
  /\ UNCHANGED <<graphVars, detached, lkDisk>>

\* PersistentGraph.Snapshot: pg.mu.RLock(), held until the return
LkSnapshotLock(t) ==
  /\ Ready(t, "Snapshot.lock")
  /\ pc' = [pc EXCEPT ![t] = "Snapshot.index"]
  /\ frame' = [frame EXCEPT ![t].holding = FALSE]
  /\ UNCHANGED <<graphVars, detached, lkDisk, locks, call, calls, lastOp, issuedNodeIDs,
                 issuedEdgeIDs, lkRest>>

\* PersistentGraph.Snapshot: walIndex := pg.wal.GetCurrentIndex()
LkSnapshotIndex(t) ==
  /\ Ready(t, "Snapshot.index")
  /\ Step(t, "Snapshot.create", [frame[t] EXCEPT !.index = GetCurrentIndex(W)])
  /\ UNCHANGED <<graphVars, detached, lkDisk>>

\* PersistentGraph.Snapshot: CreateSnapshot(walIndex, pg.nodes, pg.edges), which
\* reads the maps without a lock
LkSnapshotCreate(t) ==
  /\ Ready(t, "Snapshot.create")
  /\ snapLatest' = CreateSnapshot(frame[t].index, nodes, edges)
  /\ Step(t, "Snapshot.truncate", frame[t])
  /\ UNCHANGED <<graphVars, detached, walVars, fullLog>>

\* PersistentGraph.Snapshot: pg.wal.Truncate(walIndex)
LkSnapshotTruncate(t) ==
  /\ Ready(t, "Snapshot.truncate")
  /\ LET w == WAL_Truncate(W, frame[t].index)
     IN /\ walFile' = w.file
        /\ syncedLen' = w.synced
  /\ Step(t, "Snapshot.unlock", frame[t])
  /\ UNCHANGED <<graphVars, detached, nextIndex, fullLog, snapLatest>>

\* PersistentGraph.Snapshot: the deferred pg.mu.RUnlock() and the return
LkSnapshotUnlock(t) ==
  /\ pc[t] = "Snapshot.unlock"
  /\ pc' = [pc EXCEPT ![t] = "idle"]
  /\ frame' = [frame EXCEPT ![t] = NoFrame]
  /\ locks' = [locks EXCEPT !.pgMu = Unlock(@, "R", t)]
  /\ call' = [call EXCEPT ![t] = NoCall]
  /\ calls' = [calls EXCEPT ![t] = @ + 1]
  /\ lastOp' = Op("Snapshot", frame[t].index, "none", "none", 0)
  /\ UNCHANGED <<graphVars, detached, lkDisk, issuedNodeIDs, issuedEdgeIDs, lkRest>>

\* a step of the call thread t is in
LkStep(t) ==
  \/ LkAcquire(t)
  \/ LkAddNodeAllocate(t)
  \/ LkAddNodeStore(t)
  \/ LkAddEdgeGetSource(t)
  \/ LkAddEdgeGetTarget(t)
  \/ LkAddEdgeAllocate(t)
  \/ LkAddEdgeStore(t)
  \/ LkAddEdgeOut(t)
  \/ LkAddEdgeIn(t)
  \/ LkLog(t)
  \/ LkDeleteEdgeGet(t)
  \/ LkDeleteEdgeGetSource(t)
  \/ LkDeleteEdgeRemoveOut(t)
  \/ LkDeleteEdgeGetTarget(t)
  \/ LkDeleteEdgeRemoveIn(t)
  \/ LkDeleteEdgeDelete(t)
  \/ LkDeleteNodeGet(t)
  \/ LkDeleteNodeCopy(t)
  \/ LkDeleteNodeDelete(t)
  \/ LkNeighborsGet(t)
  \/ LkNeighborsCopy(t)
  \/ LkNeighborsEdge(t)
  \/ LkNeighborsNode(t)
  \/ LkSnapshotLock(t)
  \/ LkSnapshotIndex(t)
  \/ LkSnapshotCreate(t)
  \/ LkSnapshotTruncate(t)
  \/ LkSnapshotUnlock(t)

NextLocks == \E t \in Threads : LkInvoke(t) \/ LkStep(t)

SpecLocks == Init /\ [][NextLocks]_vars

\* the scheduler is preemptive: a thread whose next step stays possible takes it
SpecLocksFair == SpecLocks /\ \A t \in Threads : WF_vars(LkStep(t))

----------------------------------------------------------------------------
(* pkg/storage with the process dying inside WAL.Truncate: the Truncate of   *)
(* Snapshot statement by statement.  frame[1].todo holds entriesToKeep.      *)

\* one statement of Truncate: thread 1 moves to position next with locals f
TruncateStep(next, f) ==
  /\ pc' = [pc EXCEPT ![1] = next]
  /\ frame' = [frame EXCEPT ![1] = f]
  /\ UNCHANGED <<graphVars, nextIndex, snapLatest, faults, restarts, histVars, call, calls,
                 mu, stamped, returned, snapPrev, walTail, rollbackFailed, dirVars,
                 queryVars, parseVars, searchVars, planVars, locks, detached, lastOp>>

\* WAL.Truncate: the decode loop over wal.log that collects entriesToKeep
TruncateRead ==
  /\ pc[1] = "copied"
  /\ TruncateStep("read", [frame[1] EXCEPT
                             !.todo = SelectSeq(walFile, LAMBDA e : KeepEntry(e, call[1].id))])
  /\ UNCHANGED <<walFile, syncedLen>>

\* WAL.Truncate: w.file.Close() and os.OpenFile(logPath, O_TRUNC|O_CREATE|O_WRONLY)
TruncateReopen ==
  /\ pc[1] = "read"
  /\ TruncateStep("rewriting", frame[1])
  /\ walFile' = <<>>
  /\ syncedLen' = 0

\* WAL.Truncate: w.encoder.Encode(&entry) of the next retained entry
TruncateEncode ==
  /\ pc[1] = "rewriting"
  /\ frame[1].todo # <<>>
  /\ TruncateStep("rewriting", [frame[1] EXCEPT !.todo = Tail(@)])
  /\ walFile' = Append(walFile, Head(frame[1].todo))
  /\ UNCHANGED syncedLen

\* WAL.Truncate: w.file.Sync(); Snapshot returns
TruncateSync ==
  /\ pc[1] = "rewriting"
  /\ frame[1].todo = <<>>
  /\ pc' = [pc EXCEPT ![1] = "idle"]
  /\ frame' = [frame EXCEPT ![1] = NoFrame]
  /\ call' = [call EXCEPT ![1] = NoCall]
  /\ syncedLen' = Len(walFile)
  /\ lastOp' = Op("Snapshot", call[1].id, "none", "none", 0)
  /\ UNCHANGED <<graphVars, walFile, nextIndex, snapLatest, faults, restarts, histVars,
                 calls, mu, stamped, returned, snapPrev, walTail, rollbackFailed, dirVars,
                 queryVars, parseVars, searchVars, planVars, locks, detached>>

\* the process dies, between two calls or at any statement of Snapshot; a death
\* inside the Write of Truncate's Encode leaves part of the record.  lastOp.fault
\* is the position of the death
TruncateKill ==
  /\ pc[1] # "down"
  /\ restarts < CrashMaxCrashes
  /\ \E torn \in {b \in BOOLEAN : b => (pc[1] = "rewriting" /\ frame[1].todo # <<>>)} :
       walTail' = IF torn THEN "partial" ELSE walTail
  /\ restarts' = restarts + 1
  /\ pc' = [pc EXCEPT ![1] = "down"]
  /\ call' = [call EXCEPT ![1] = NoCall]
  /\ frame' = [frame EXCEPT ![1] = NoFrame]
  /\ lastOp' = Op("Kill", 0, "none", pc[1], 0)
  /\ UNCHANGED <<graphVars, walVars, snapLatest, faults, histVars, calls, mu, stamped,
                 returned, snapPrev, rollbackFailed, dirVars, queryVars, parseVars,
                 searchVars, planVars, locks, detached>>

\* the process is started on the same directories: NewPersistentGraph
TruncateOpen ==
  /\ pc[1] = "down"
  /\ lastOp.op = "Kill"
  /\ LET r == NewPersistentGraph(snapLatest, walFile, syncedLen, walTail)
     IN /\ lastOp' = Op("Open", 0, IF r.err = "none" THEN "none" ELSE "decode",
                        lastOp.fault, 0)
        /\ IF r.err = "none"
           THEN /\ SetG(r.g)
                /\ nextIndex' = r.nextIndex
                /\ pc' = [pc EXCEPT ![1] = "idle"]
           ELSE UNCHANGED <<graphVars, nextIndex, pc>>
  /\ UNCHANGED <<walFile, syncedLen, snapLatest, faults, restarts, histVars, call, calls,
                 auxVars>>

NextTruncate ==
  \/ CrashAddNode
  \/ CrashAddEdge
  \/ CrashDeleteNode
  \/ CrashDeleteEdge
  \/ SnapshotWriteFile
  \/ SnapshotRemoveLatest
  \/ SnapshotCopyLatest
  \/ TruncateRead
  \/ TruncateReopen
  \/ TruncateEncode
  \/ TruncateSync
  \/ TruncateKill
  \/ TruncateOpen

SpecTruncate == Init /\ [][NextTruncate]_vars

----------------------------------------------------------------------------
(* Recovery as it acts on the whole engine e = [g, w, walEnabled]: the      *)
(* facade reopened again and again                                          *)

\* Variant of the replay handler that appends the entry it applies to the WAL.
applyWALEntryOn_Logged(e, entry) ==
  [e EXCEPT !.g = applyWALEntry(@, entry),
            !.w = WAL_Append(@, entry.OpType, entry.Data, "none").w]

\* the handler Recover gives to WAL.Replay: applyWALEntry writes to the maps of
\* pg.Graph and calls pg.Graph.DeleteNode / pg.Graph.DeleteEdge, never the facade
applyWALEntryOn(e, entry) == [e EXCEPT !.g = applyWALEntry(@, entry)]

\* WAL.Replay over the records of wal.log as they were when it opened the file
RECURSIVE ReplayOn(_, _)
ReplayOn(e, file) ==
  IF file = <<>> THEN e
  ELSE ReplayOn(applyWALEntryOn(e, Head(file)), Tail(file))

\* PersistentGraph.Recover: walEnabled is false until the deferred function runs
RecoverOn(snapshot, w) ==
  LET e == ReplayOn([g |-> LoadSnapshot(NewGraph, snapshot), w |-> w, walEnabled |-> FALSE],
                    w.file)
  IN [e EXCEPT !.walEnabled = TRUE]

\* PersistentGraph.Close, then NewPersistentGraph on the same directories
Reopen ==
  /\ restarts < DeepMaxRestarts
  /\ \E e \in {RecoverOn(snapLatest, NewWAL(walFile, syncedLen))} :
       /\ SetG(e.g)
       /\ walFile' = e.w.file
       /\ nextIndex' = e.w.nextIndex
       /\ syncedLen' = e.w.synced
  /\ restarts' = restarts + 1
  /\ lastOp' = Op("Recover", 0, "none", "none", 0)
  /\ UNCHANGED <<snapLatest, faults, histVars, threadVars, auxVars>>

NextReopen ==
  \/ AddNode(DeepLimits)
  \/ AddEdge(DeepLimits)
  \/ DeleteNode(DeepLimits)
  \/ DeleteEdge(DeepLimits)
  \/ Snapshot
  \/ Reopen

SpecReopen == Init /\ [][NextReopen]_vars

----------------------------------------------------------------------------
(* Properties *)

Mutations == {"AddNode", "AddEdge", "DeleteNode", "DeleteEdge"}

\* what the facade's readers see of a graph: counts, labels, properties, endpoints
Content(g) ==
  [nodeCount |-> NodeCount(g),
   edgeCount |-> EdgeCount(g),
   nodes |-> [n \in DOMAIN g.nodes |->
                [Label |-> g.nodes[n].Label, Properties |-> g.nodes[n].Properties]],
   edges |-> [e \in DOMAIN g.edges |->
                [Source |-> g.edges[e].Source, Target |-> g.edges[e].Target,
                 Label |-> g.edges[e].Label, Properties |-> g.edges[e].Properties]]]

\* the node set, the edge set with endpoints, and the adjacency lists
Structure(g) ==
  [nodes |-> [n \in DOMAIN g.nodes |->
                [OutEdges |-> g.nodes[n].OutEdges, InEdges |-> g.nodes[n].InEdges]],
   edges |-> [e \in DOMAIN g.edges |->
                [Source |-> g.edges[e].Source, Target |-> g.edges[e].Target]]]

\* which nodes and edges exist
Visible(g) == [nodes |-> DOMAIN g.nodes, edges |-> DOMAIN g.edges]

\* C1: with no Snapshot call and no failed mutation, closing and reopening the
\* engine yields the same counts, the same label and properties for every node and
\* the same endpoints, label and properties for every edge as before Close.
C1_ReopenPreservesContent ==
  [][(lastOp'.op = "CloseAndReopen" /\ ~snapLatest.present /\ faults = 0)
       => Content(G') = Content(G)]_vars

\* C2: after a run in which Snapshot was called, reopening yields the same node map,
\* edge map and adjacency lists as reopening after the same mutations with no
\* Snapshot call (whose wal.log is the untruncated log).
C2_SnapshotReopenEqualsPlainReopen ==
  (lastOp.op = "CloseAndReopen" /\ faults = 0)
    => LET plain == Recover(NoSnapshot, fullLog)
       IN nodes = plain.nodes /\ edges = plain.edges

AllReturned == \A t \in Threads : pc[t] = "idle"

\* C3: when concurrent facade mutations have all returned, replaying wal.log in
\* file order rebuilds the node set, edge set and adjacency lists of the in-memory
\* graph.
C3_ReplayRebuildsConcurrentGraph ==
  AllReturned => Structure(Recover(snapLatest, walFile)) = Structure(G)

\* the WAL record that describes a returned mutation
Describes(entry, op) ==
  CASE op.op = "AddNode" -> entry.OpType = "ADD_NODE" /\ entry.Data.node_id = op.id
    [] op.op = "AddEdge" -> entry.OpType = "ADD_EDGE" /\ entry.Data.edge_id = op.id
    [] op.op = "DeleteNode" -> entry.OpType = "DELETE_NODE" /\ entry.Data.node_id = op.id
    [] op.op = "DeleteEdge" -> entry.OpType = "DELETE_EDGE" /\ entry.Data.edge_id = op.id
    [] OTHER -> FALSE

\* C4: a facade mutation that returned success has its record in wal.log, covered by
\* a successful fsync.
C4_SuccessAfterFsync ==
  (lastOp.op \in Mutations /\ lastOp.res = "none")
    => /\ walFile # <<>>
       /\ Describes(walFile[Len(walFile)], lastOp)
       /\ syncedLen = Len(walFile)

\* C4 witness: a mutation returns success after an earlier append was lost at fsync
C4_Witness ==
  /\ lastOp.op \in Mutations
  /\ lastOp.res = "none"
  /\ faults > 0
  /\ Len(walFile) >= 2

\* C5: after a facade mutation failed on its WAL append, the nodes and edges in
\* memory are those recovery would rebuild from the files on disk.
C5_FailedAppendLeavesMemoryAndDiskEqual ==
  lastOp.res = "wal" => Visible(Recover(snapLatest, walFile)) = Visible(G)

\* C6: when the WAL append of AddNode or AddEdge fails, the node map, the edge map
\* and every adjacency list are as they were before the call.
C6_FailedAddIsRolledBack ==
  [][(lastOp'.op \in {"AddNode", "AddEdge"} /\ lastOp'.res = "wal")
       => (nodes' = nodes /\ edges' = edges)]_vars

\* C7: a NodeID or EdgeID returned by a successful AddNode / AddEdge was never
\* returned by an earlier one, across deletions, snapshots and restarts.
C7_IDsNeverReused ==
  [][/\ (lastOp'.op = "AddNode" /\ lastOp'.res = "none") => lastOp'.id \notin issuedNodeIDs
     /\ (lastOp'.op = "AddEdge" /\ lastOp'.res = "none") => lastOp'.id \notin issuedEdgeIDs]_vars

\* C8: every edge in the edge map has its source and its target in the node map.
C8_NoDanglingEdges ==
  \A e \in DOMAIN edges :
    edges[e].Source \in DOMAIN nodes /\ edges[e].Target \in DOMAIN nodes

Range(list) == {list[i] : i \in 1..Len(list)}
NoDuplicates(list) == \A i, j \in 1..Len(list) : list[i] = list[j] => i = j

\* C9: on the in-memory Graph, for every live node n the IDs in n.OutEdges are
\* exactly the live edges with source n, each once, and the IDs in n.InEdges are
\* exactly the live edges with target n, each once.
C9_AdjacencyMatchesEdgeMap ==
  \A n \in DOMAIN nodes :
    /\ NoDuplicates(nodes[n].OutEdges)
    /\ NoDuplicates(nodes[n].InEdges)
    /\ Range(nodes[n].OutEdges) = {e \in DOMAIN edges : edges[e].Source = n}
    /\ Range(nodes[n].InEdges) = {e \in DOMAIN edges : edges[e].Target = n}

\* C9 witness: an edge has been deleted from a node that still has another edge
C9_Witness ==
  /\ lastOp.op = "DeleteEdge"
  /\ lastOp.res = "none"
  /\ \E n \in DOMAIN nodes : nodes[n].OutEdges # <<>> /\ nodes[n].InEdges # <<>>

\* the list without the IDs in removed, order kept
Without(list, removed) == SelectSeq(list, LAMBDA e : e \notin removed)

C12_AddNodeFreshID ==
  \A label \in NodeLabels, properties \in NodePropChoices :
    LET r == Graph_AddNode(G, label, properties)
    IN /\ r.err = "none"
       /\ \A i \in issuedNodeIDs : r.id > i
       /\ issuedNodeIDs = {} => r.id = 1
       /\ NodeCount(r.g) = NodeCount(G) + 1
       /\ HasNode(r.g, r.id)
       /\ r.g.nodes[r.id].ID = r.id
       /\ r.g.nodes[r.id].Label = label
       /\ r.g.nodes[r.id].Properties = properties

\* C12 witness: AddNode returned an ID past 1 after an earlier node was deleted
C12_Witness ==
  /\ lastOp.op = "AddNode"
  /\ lastOp.id >= 2
  /\ lastOp.id \in DOMAIN nodes
  /\ NodeCount(G) < Cardinality(issuedNodeIDs)

\* C13: in every reachable state of the in-memory Graph, AddEdge whose source or target
\* is not in the node map returns not-found and leaves the node map, the edge map, the
\* adjacency lists and both ID counters as they were.
C13_AddEdgeMissingEndpoint ==
  \A source \in 1..MaxGraphNodeID, target \in 1..MaxGraphNodeID,
     label \in EdgeLabels, properties \in EdgePropChoices :
    (~HasNode(G, source) \/ ~HasNode(G, target))
      => LET r == Graph_AddEdge(G, source, target, label, properties)
         IN r.err = "notfound" /\ r.g = G

\* C13 witness: AddEdge was refused in a graph that has a node and an edge
C13_Witness ==
  /\ lastOp.op = "AddEdge"
  /\ lastOp.res = "notfound"
  /\ NodeCount(G) >= 1
  /\ EdgeCount(G) >= 1

\* C14: after recovery (snapshot load, then WAL replay) the node counter is greater
\* than the ID of every node in the node map and the edge counter is greater than the
\* ID of every edge in the edge map, so the next AddNode or AddEdge gets an ID that no
\* live node or edge has.
C14_CountersPastLiveIDs ==
  lastOp.op = "CloseAndReopen"
    => /\ \A n \in DOMAIN nodes : nextNodeID > n
       /\ \A e \in DOMAIN edges : nextEdgeID > e
       /\ \A label \in NodeLabels, properties \in NodePropChoices :
            ~HasNode(G, Graph_AddNode(G, label, properties).id)
       /\ \A source \in DOMAIN nodes, target \in DOMAIN nodes, label \in EdgeLabels :
            ~HasEdge(G, Graph_AddEdge(G, source, target, label, EmptyProps).id)

\* C14 witness: a recovery from a snapshot plus retained WAL records that rebuilt
\* nodes and edges
C14_Witness ==
  /\ lastOp.op = "CloseAndReopen"
  /\ snapLatest.present
  /\ walFile # <<>>
  /\ DOMAIN nodes # {}
  /\ DOMAIN edges # {}

Indexes(file) == [i \in 1..Len(file) |-> file[i].Index]
StrictlyIncreasing(seq) == \A i \in 1..Len(seq), j \in 1..Len(seq) : i < j => seq[i] < seq[j]

\* C15: concurrent Append calls on one WAL are serialized: the indexes returned by the
\* successful calls are distinct and consecutive from next_index (1 on a new log), each
\* of them is the Index of a record that was written, and the records in wal.log are in
\* strictly increasing index order.
C15_AppendsSerialized ==
  (restarts = 0 /\ AllReturned)
    => /\ \A i \in 1..Len(returned) : returned[i] = i
       /\ \A i \in 1..Len(returned) : \E p \in 1..Len(fullLog) : fullLog[p].Index = returned[i]
       /\ StrictlyIncreasing(Indexes(walFile))

\* C16: in every reachable state, also after an Append that failed at fsync, the
\* indexes of the records in wal.log are contiguous and strictly increasing: each record
\* has the index of the one before it plus 1, so no index appears twice.
C16_IndexesContiguous ==
  \A i \in 2..Len(walFile) : walFile[i].Index = walFile[i - 1].Index + 1

C18_TruncateKeepsFromIndex ==
  [][lastOp'.op = "Truncate"
       => LET k == lastOp'.id
          IN /\ walFile' = SelectSeq(walFile, LAMBDA e : e.Index >= k)
             /\ nextIndex' = nextIndex
             /\ WAL_Append(W', "DELETE_NODE", [node_id |-> 1], "none").index
                  = WAL_Append(W, "DELETE_NODE", [node_id |-> 1], "none").index]_vars

\* C18 witness: a Truncate that dropped some records and kept others
C18_Witness ==
  /\ lastOp.op = "Truncate"
  /\ lastOp.removed >= 1
  /\ walFile # <<>>
  /\ walFile[1].Index = lastOp.id

\* C19: after a successful Snapshot() whose metadata index is I, wal.log holds exactly
\* the records with index >= I that it held before the Snapshot, and no record with
\* index < I; Close and reopen leaves the file as it is.
C19_SnapshotRetainsFromIndex ==
  [][/\ lastOp'.op = "Snapshot"
          => LET I == snapLatest'.Index
             IN /\ lastOp'.id = I
                /\ walFile' = SelectSeq(walFile, LAMBDA e : e.Index >= I)
                /\ \A i \in 1..Len(walFile') : walFile'[i].Index >= I
     /\ lastOp'.op = "CloseAndReopen" => walFile' = walFile]_vars

\* C19 witness: a Snapshot that dropped records and retained the one at its index
C19_Witness ==
  /\ lastOp.op = "Snapshot"
  /\ snapLatest.present
  /\ walFile # <<>>
  /\ Len(walFile) < Len(fullLog)
  /\ walFile[1].Index = snapLatest.Index

\* C20: if the process dies at any point during CreateSnapshot, snapshot-latest.json
\* afterwards is there and holds a complete snapshot (the previous latest or the new
\* one) whenever a previous latest existed when CreateSnapshot began.
C20_LatestSurvivesCrash ==
  (lastOp.op = "Crash" /\ snapPrev.present)
    => snapLatest.present

\* C21: when wal.log ends with a partially written record, opening the engine succeeds
\* and the state it rebuilds is the one the complete records before it (and the latest
\* snapshot) give.
C21_TornTailIsEndOfLog ==
  (lastOp.op = "Open" /\ walTail # "")
    => /\ lastOp.res = "none"
       /\ G = Recover(snapLatest, walFile)

\* C22: once the rollback after a failed WAL append has itself failed, the engine
\* refuses every operation: no facade call gets past its Graph method any more.
C22_FailedRollbackStopsEngine ==
  [][rollbackFailed => \A t \in Threads : ~(pc[t] = "idle" /\ pc'[t] = "append")]_vars

\* the AddNode calls that have returned a node
ReturnedNodes == calls[1] + calls[2] - faults

C24_CleanupKeepsNewest ==
  [][lastOp'.op = "CleanupOldSnapshots"
       => LET keep == lastOp'.id
              n == Len(snapFiles)
          IN /\ snapFiles' = IF n <= keep THEN snapFiles
                             ELSE SubSeq(snapFiles, n - keep + 1, n)
             /\ snapLatest' = snapLatest]_vars

\* the rows of a result as a set
RowSet(rows) == {rows[i] : i \in 1..Len(rows)}

\* C25: a Scan/Filter/Project/Limit query returns the same set of rows whatever order
\* IterateNodes visits the nodes in.
C25_RowSetDeterministic ==
  (lastOp.op = "Execute" /\ query.edges = <<>>)
    => \A order \in IterateNodes(G) :
         RowSet(Execute(G, query, order).rows) = RowSet(result.rows)

\* C25 as amended: without LIMIT the set of rows is the same whatever the visiting
\* order; with LIMIT k the result has min(k, n) rows, each of them one of the n rows of
\* the same query without LIMIT.
C25_RowSetDeterministicWithoutLimit ==
  (lastOp.op = "Execute" /\ query.edges = <<>>)
    => \A order \in IterateNodes(G) :
         LET all == Execute(G, [query EXCEPT !.limit = -1], order).rows
         IN IF query.limit < 0
            THEN RowSet(all) = RowSet(result.rows)
            ELSE /\ Len(result.rows) = IF Len(all) < query.limit THEN Len(all)
                                       ELSE query.limit
                 /\ RowSet(result.rows) \subseteq RowSet(all)

\* C25 witness: a LIMIT 1 query returned one of two rows, and the other visiting order
\* gives the other row
C25_Witness ==
  /\ lastOp.op = "Execute"
  /\ query.limit = 1
  /\ Len(result.rows) = 1
  /\ \E order \in IterateNodes(G) : Execute(G, query, order).rows # result.rows

\* C26: a query MATCH (a:L)-[:T]->(b) RETURN a, b (L and T optional) yields exactly one
\* row per edge from a node a with label L to b whose label is T: for every pair of
\* nodes, as many rows (a, b) as there are such edges between them, and no other row.
C26_ExpandOutOneRowPerEdge ==
  (lastOp.op = "Execute" /\ Len(query.edges) = 1 /\ query.edges[1].Direction = "Out")
    => LET L == query.nodes[1].Label
           T == query.edges[1].Type
           a == query.nodes[1].Variable
           b == query.nodes[2].Variable
           rows == result.rows
           Matching == {e \in DOMAIN edges :
                          /\ T = "" \/ edges[e].Label = T
                          /\ L = "" \/ nodes[edges[e].Source].Label = L}
       IN /\ result.err = "none"
          /\ Len(rows) = Cardinality(Matching)
          /\ \A x \in DOMAIN nodes, y \in DOMAIN nodes :
               Cardinality({i \in 1..Len(rows) :
                              rows[i][a] = NodeRef(x) /\ rows[i][b] = NodeRef(y)})
                 = Cardinality({e \in Matching :
                                  edges[e].Source = x /\ edges[e].Target = y})

\* C26 witness: MATCH (a:Person)-[:KNOWS]->(b) RETURN a, b returned one row on a graph
\* with two edges
C26_Witness ==
  /\ lastOp.op = "Execute"
  /\ lastOp.id = 5
  /\ Len(result.rows) = 1
  /\ EdgeCount(G) = 2

----------------------------------------------------------------------------
(* Properties of the lexer and the parser *)

\* the indexes, in order, of the tokens from k on at which an edge pattern starts
\* (a "-" or "<-" right before a "[") resp. is closed (a "]")
RECURSIVE EdgeOpenings(_, _)
EdgeOpenings(toks, k) ==
  IF k > Len(toks) THEN <<>>
  ELSE (IF toks[k].Type \in {"Dash", "LeftArrow"} /\ TokenAt(toks, k + 1).Type = "LeftBracket"
        THEN <<k>> ELSE <<>>) \o EdgeOpenings(toks, k + 1)
RECURSIVE EdgeClosings(_, _)
EdgeClosings(toks, k) ==
  IF k > Len(toks) THEN <<>>
  ELSE (IF toks[k].Type = "RightBracket" THEN <<k>> ELSE <<>>) \o EdgeClosings(toks, k + 1)

\* C27: any query text whose token stream contains an Illegal token, at any position,
\* makes Parse return an error
C27_IllegalTokenIsParseError ==
  (lastOp.op = "Parse" /\ \E k \in 1..Len(tokens) : tokens[k].Type = "Illegal")
    => parsed.err # ""

\* C28: an edge pattern that starts with "<-" and has neither "-" nor "->" after its
\* closing "]" is a parse error
C28_LoneLeftArrowIsParseError ==
  (/\ lastOp.op = "Parse"
   /\ tokens[1].Type = "Match"
   /\ \E m \in 1..Len(EdgeOpenings(tokens, 1)) :
        /\ m <= Len(EdgeClosings(tokens, 1))
        /\ tokens[EdgeOpenings(tokens, 1)[m]].Type = "LeftArrow"
        /\ TokenAt(tokens, EdgeClosings(tokens, 1)[m] + 1).Type \notin {"Dash", "Arrow"})
    => parsed.err # ""

\* the direction the two ends of an edge pattern stand for
DirectionOfEnds(leading, trailing) ==
  CASE leading = "Dash" /\ trailing = "Arrow" -> "Out"
    [] leading = "LeftArrow" /\ trailing = "Dash" -> "In"
    [] OTHER -> "Both"

\* C29: in every query that parses, an edge pattern with leading "-" and trailing "->"
\* has direction Out, one with leading "<-" and trailing "-" has direction In, and one
\* with "-" ... "-" or "<-" ... "->" has direction Both
C29_EdgeDirectionFromEnds ==
  (lastOp.op = "Parse" /\ parsed.err = "")
    => \A m \in 1..Len(parsed.val.edges) :
         LET leading == tokens[EdgeOpenings(tokens, 1)[m]].Type
             trailing == TokenAt(tokens, EdgeClosings(tokens, 1)[m] + 1).Type
         IN trailing \in {"Dash", "Arrow"}
              => parsed.val.edges[m].Direction = DirectionOfEnds(leading, trailing)

\* a query whose edge pattern is "<-[...]->" has been parsed, to direction Both
C29_Witness ==
  /\ lastOp.op = "Parse" /\ parsed.err = ""
  /\ Len(parsed.val.edges) = 1
  /\ parsed.val.edges[1].Direction = "Both"
  /\ tokens[EdgeOpenings(tokens, 1)[1]].Type = "LeftArrow"
  /\ TokenAt(tokens, EdgeClosings(tokens, 1)[1] + 1).Type = "Arrow"

----------------------------------------------------------------------------
(* Properties of BFS *)

\* the nodes that k or fewer outgoing edges lead to from the nodes of S
RECURSIVE WithinHops(_, _, _)
WithinHops(g, S, k) ==
  IF k = 0 THEN S
  ELSE LET near == WithinHops(g, S, k - 1)
       IN near \cup {g.edges[e].Target :
                       e \in {x \in DOMAIN g.edges : g.edges[x].Source \in near}}

Reachable(g, a, b) == b \in WithinHops(g, {a}, NodeCount(g))

\* the minimum number of hops from a to b, for b reachable from a
MinHops(g, a, b) ==
  CHOOSE k \in 0..NodeCount(g) :
    /\ b \in WithinHops(g, {a}, k)
    /\ \A j \in 0..(k - 1) : b \notin WithinHops(g, {a}, j)

\* path leads from a to b along existing edges
IsPath(g, path, a, b) ==
  /\ path # <<>>
  /\ path[1] = a
  /\ path[Len(path)] = b
  /\ \A k \in 1..(Len(path) - 1) :
       \E e \in DOMAIN g.edges : g.edges[e].Source = path[k] /\ g.edges[e].Target = path[k + 1]

\* C30: BFS(start, target, maxDepth) returns Found = true, Distance = the minimum number
\* of hops from start to target and a Path of that many hops from start to target,
\* whenever target is reachable from start, within maxDepth hops when maxDepth > 0,
\* exactly maxDepth hops included.  (lastOp holds start, target and maxDepth in its
\* id, removed and fault fields.)
C30_BFSFindsShortestPath ==
  (/\ lastOp.op = "BFS"
   /\ lastOp.id \in DOMAIN nodes
   /\ lastOp.removed \in DOMAIN nodes
   /\ Reachable(G, lastOp.id, lastOp.removed)
   /\ (lastOp.fault > 0 => MinHops(G, lastOp.id, lastOp.removed) <= lastOp.fault))
    => /\ search.Found
       /\ search.Distance = MinHops(G, lastOp.id, lastOp.removed)
       /\ Len(search.Path) = search.Distance + 1
       /\ IsPath(G, search.Path, lastOp.id, lastOp.removed)

----------------------------------------------------------------------------
(* Properties of DFS *)

\* C31: DFS(start, nil, maxDepth) with maxDepth > 0 visits exactly the nodes reachable
\* from start within maxDepth hops, each exactly once.  (lastOp holds start, target
\* and maxDepth in its id, removed and fault fields.)
C31_DFSVisitsAllWithinDepth ==
  (/\ lastOp.op = "DFS"
   /\ lastOp.id \in DOMAIN nodes
   /\ lastOp.removed = NoTarget
   /\ lastOp.fault > 0)
    => /\ Range(search.VisitedOrder) = WithinHops(G, {lastOp.id}, lastOp.fault)
       /\ Cardinality(Range(search.VisitedOrder)) = Len(search.VisitedOrder)

----------------------------------------------------------------------------
(* Properties of replay *)

\* C32: replaying an ADD_NODE or ADD_EDGE record onto a graph that already contains
\* that ID, as happens for the record at the snapshot index that Truncate retains, is
\* idempotent: the node map (adjacency lists included) and the edge map afterwards
\* equal those before the replay
C32_ReplayOfPresentIDIsIdempotent ==
  snapLatest.present =>
    LET loaded == LoadSnapshot(NewGraph, snapLatest)
    IN \A k \in 1..Len(walFile) :
         LET entry == walFile[k]
             replayed == applyWALEntry(loaded, entry)
         IN (/\ entry.Index = snapLatest.Index
             /\ \/ entry.OpType = "ADD_NODE" /\ entry.Data.node_id \in DOMAIN loaded.nodes
                \/ entry.OpType = "ADD_EDGE" /\ entry.Data.edge_id \in DOMAIN loaded.edges)
              => /\ replayed.nodes = loaded.nodes
                 /\ replayed.edges = loaded.edges

----------------------------------------------------------------------------
(* Properties of the lock-level callers *)

\* the mutations made so far are AddNode, AddEdge and DeleteNode calls
OnlyAddsAndDeleteNode ==
  \A k \in 1..Len(fullLog) : fullLog[k].OpType \in {"ADD_NODE", "ADD_EDGE", "DELETE_NODE"}

\* edge e is in the edge map with both endpoints in the node map
Sound(e) ==
  e \in DOMAIN edges /\ edges[e].Source \in DOMAIN nodes /\ edges[e].Target \in DOMAIN nodes

\* C33: under every interleaving of AddEdge(s, t) with DeleteNode(s) or DeleteNode(t),
\* once the calls have returned no edge in the edge map has an endpoint missing from
\* the node map, and no live node's adjacency list holds the ID of an edge that is
\* absent or has a missing endpoint
C33_AddEdgeDeleteNodeRaceKeepsIntegrity ==
  (AllReturned /\ OnlyAddsAndDeleteNode) =>
    /\ \A e \in DOMAIN edges : Sound(e)
    /\ \A n \in DOMAIN nodes :
         \A e \in Range(nodes[n].OutEdges) \cup Range(nodes[n].InEdges) : Sound(e)

\* C36: no interleaving of concurrent AddNode, AddEdge, DeleteNode, DeleteEdge,
\* GetNeighbors, GetIncomingNeighbors and Snapshot calls deadlocks: every call that
\* has started eventually gets the locks it needs and returns
C36_EveryCallReturns == \A t \in Threads : (pc[t] # "idle") ~> (pc[t] = "idle")

\* C36 witness: a thread is waiting for a mutex that the other thread holds
C36_Witness ==
  \E t \in Threads :
    /\ pc[t] # "idle"
    /\ ~frame[t].holding
    /\ Need(t).name # "none"
    /\ ~Free(Mutex(locks, Need(t)), Need(t).mode)

\* the records of the log with index at most index, in file order
UpTo(file, index) == SelectSeq(file, LAMBDA e : e.Index <= index)

\* C34: the snapshot written by Snapshot() with metadata index I contains exactly the
\* graph state produced by the WAL entries with index <= I, also when facade mutations
\* run concurrently with Snapshot()
C34_SnapshotIsStateAtItsIndex ==
  snapLatest.present =>
    Structure(LoadSnapshot(NewGraph, snapLatest))
      = Structure(Replay(NewGraph, UpTo(fullLog, snapLatest.Index)))

----------------------------------------------------------------------------
(* Properties of Truncate *)

\* the positions of thread 1 inside WAL.Truncate
InsideTruncate == {"copied", "read", "rewriting"}

\* C35: if the process crashes at any point inside Truncate during Snapshot(),
\* reopening still recovers every acknowledged mutation: the engine opens and its
\* content is that of all the records ever written
C35_CrashInsideTruncateLosesNothing ==
  (lastOp.op = "Open" /\ lastOp.fault \in InsideTruncate) =>
    /\ lastOp.res = "none"
    /\ Content(G) = Content(Replay(NewGraph, fullLog))

----------------------------------------------------------------------------
(* Properties of Recover *)

\* C37: Recover leaves the WAL unchanged: applying the snapshot and replaying the
\* entries appends no record and does not change nextIndex (it stays what NewWAL
\* read off the file), so reopening again without a mutation in between leaves
\* wal.log and nextIndex as they were
C37_RecoverLeavesWALUnchanged ==
  [][lastOp'.op = "Recover" =>
       /\ walFile' = walFile
       /\ nextIndex' = NewWAL(walFile, syncedLen).nextIndex
       /\ lastOp.op = "Recover" => nextIndex' = nextIndex]_vars

\* C37 witness: the engine has been reopened twice in a row on a snapshot and a
\* non-empty wal.log
C37_Witness ==
  /\ lastOp.op = "Recover"
  /\ restarts >= 2
  /\ snapLatest.present
  /\ walFile # <<>>

----------------------------------------------------------------------------
(* Properties of the planner *)

Filters(n) == [i \in 1..n |-> "Filter"]

\* from edge pattern i on: an Expand, then one Filter per inline property of its target
RECURSIVE EdgeKinds(_, _)
EdgeKinds(q, i) ==
  IF i > Len(q.edges) THEN <<>>
  ELSE <<"Expand">> \o Filters(Cardinality(DOMAIN q.nodes[i + 1].Properties))
         \o EdgeKinds(q, i + 1)

\* the kinds of operators the plan of q is to have, in order
PlanKinds(q) ==
  <<"Scan">> \o Filters(Cardinality(DOMAIN q.nodes[1].Properties)) \o EdgeKinds(q, 1)
    \o (IF q.where.type # "nil" THEN <<"Filter">> ELSE <<>>)
    \o (IF q.items # <<>> THEN <<"Project">> ELSE <<>>)
    \o (IF q.limit >= 0 THEN <<"Limit">> ELSE <<>>)

\* the filter variable.k = v
InlineFilter(node, k) ==
  BinaryExpr(PropertyAccess(node.Variable, k), "=", Literal(node.Properties[k]))

\* C38: for a query with a MATCH clause, BuildExecutionPlan emits a Scan of the first
\* pattern's first node, one Filter per inline property of that node, then for each
\* edge in pattern order an Expand followed by one Filter per inline property of its
\* target node, then the WHERE Filter if present, then Project if RETURN is present,
\* then Limit if LIMIT is present
C38_PlanOperatorOrder ==
  lastOp.op = "Plan" =>
    LET first == query.nodes[1]
        n1 == Cardinality(DOMAIN first.Properties)
        expands == SelectSeq(plan, LAMBDA o : o.op = "Expand")
        tail == (IF query.items # <<>> THEN 1 ELSE 0) + (IF query.limit >= 0 THEN 1 ELSE 0)
    IN /\ [i \in 1..Len(plan) |-> plan[i].op] = PlanKinds(query)
       /\ plan[1].Variable = first.Variable
       /\ {plan[i].Predicate : i \in 2..(1 + n1)}
            = {InlineFilter(first, k) : k \in DOMAIN first.Properties}
       /\ \A j \in 1..Len(expands) :
            /\ expands[j].SourceVar = query.nodes[j].Variable
            /\ expands[j].TargetVar = query.nodes[j + 1].Variable
       /\ query.where.type # "nil" => plan[Len(plan) - tail].Predicate = query.where

\* C38 witness: a plan for two edges whose nodes all have inline properties, with
\* WHERE, RETURN and LIMIT
C38_Witness ==
  /\ lastOp.op = "Plan"
  /\ Len(query.edges) = 2
  /\ \A i \in 1..3 : DOMAIN query.nodes[i].Properties # {}
  /\ query.where.type # "nil"
  /\ query.items # <<>>
  /\ query.limit >= 0

----------------------------------------------------------------------------
(* Properties of Results *)

\* C39: in every Result returned by Execute the column names and the row keys agree:
\* every name in Columns is a key of every row and every row has no other keys, for
\* every kind of RETURN item (aliased, identifier, property access, literal)
C39_ColumnsAreRowKeys ==
  (lastOp.op = "Execute" /\ result.err = "none") =>
    \A i \in 1..Len(result.rows) : DOMAIN result.rows[i] = Range(result.Columns)

\* a node pattern other than the last has no variable name
AnonymousSource(q) == \E i \in 1..Len(q.edges) : q.nodes[i].Variable = ""

\* C40: a pattern whose start or intermediate node has no variable name executes
\* without error (and Expand follows the edges of every node the anonymous position
\* matched)
C40_AnonymousNodeExecutes ==
  (lastOp.op = "Execute" /\ AnonymousSource(query)) => result.err = "none"

====
